---- MODULE Spec2Model ----
(***************************************************************************)
(* A model of @gramio/composer: the onion executor compose(), the          *)
(* Composer registry (use / derive / guard / group / as / extend /         *)
(* onError / compose / run) and the chain invocation itself, executed one  *)
(* continuation step at a time by a small stack machine.                   *)
(***************************************************************************)
EXTENDS Integers, Sequences, FiniteSets, Bags, TLC

VARIABLES
    comp,      \* the Composer instances: comp[c] is the "~" record of composer c
    refs,      \* number of compiled closures created so far (reference identity)
    ops,       \* number of registration calls made so far
    runs,      \* number of chain invocations started so far
    ctx,       \* the context object of the invocation in progress
    fixed,     \* keys of the context object that are not configurable
    stack,     \* call stack of the invocation: one frame per middleware being run
    invs,      \* the chain invocations (closures of compose.ts:13) created so far
    ret,       \* settled result handed from a callee to its awaiting caller
    log,       \* what the user-supplied functions observed, in order
    result,    \* the settled promise of the outermost call
    hist,      \* per composer: references returned by compose() since the last
               \* registration call
    call,      \* the outermost call in progress: its middleware list, terminal,
               \* composer (0 for the standalone compose), initial context and
               \* the number of registration calls made before it
    api,       \* the registration calls made so far (a bag)
    tasks,     \* the detached chains started by fork() in the invocation in progress
    eventQueue \* the EventQueue instance (part_007)

vars ==
    <<comp, refs, ops, runs, ctx, fixed, stack, invs, ret, log, result, hist, call, api,
      tasks, eventQueue>>

(***************************************************************************)
(* Bounds of the model.                                                    *)
(***************************************************************************)
MaxSteps == 3      \* longest step list handed to the standalone compose()
MaxOps == 6        \* registration calls per behaviour
MaxMws == 2        \* entries registered directly on one composer
MaxHandlers == 3   \* error handlers registered on one composer
MaxNested == 2     \* steps registered inside one group() or local plugin
MaxOwn == 1        \* observing steps an extending registry registers itself
MaxRuns == 1       \* chain invocations per behaviour
MaxCalls == 3      \* compose()/run() calls on one composer between registrations
MaxReg == 2        \* registration calls on the composer whose cache is watched

(***************************************************************************)
(* Context: a record of keys; Absent stands for "key not on the object".   *)
(***************************************************************************)
Absent == 0
Keys == {"j", "k"}
Vals == {1, 2}
EmptyCtx == [x \in Keys |-> Absent]
ObjectKeys(o) == {x \in Keys : o[x] # Absent}

(***************************************************************************)
(* Middleware values.  k is the function that built the middleware:        *)
(*   "user"     caller-supplied middleware, behaviour beh                  *)
(*   "derive"   Composer.derive wrapper around a caller-supplied handler   *)
(*   "gate"     Composer.guard without middleware                          *)
(*   "isolated" the snapshot wrapper of group() / extend()                 *)
(*   "compiled" the error boundary built by Composer.compose()             *)
(*   "decorate", "guardWith", "branch", "route", "tap", "lazy", "fork"     *)
(*              the middleware the method of that name builds (guardWith:  *)
(*              guard() with handlers)                                     *)
(*   "traced"   the wrapper compose() puts around an entry when a tracer   *)
(*              is installed                                               *)
(***************************************************************************)
Fn(k, id, beh, key, val, body) ==
    [k |-> k, id |-> id, beh |-> beh, key |-> key, val |-> val, body |-> body]

\* Behaviours of caller-supplied middleware (types.ts Middleware<T>):
\*   pass    log; await next(); log
\*   stop    log; return without calling next()
\*   throw   log; throw synchronously
\*   reject  log; fail asynchronously
\*   twice   log; await next(); await next(); log
\*   set     log; ctx[key] = val; await next(); log
\*   del     log; delete ctx[key]; await next(); log
\*   define  log; Object.defineProperty(ctx, key, {value: val, enumerable: true,
\*           writable: true, configurable: false}); await next(); log
User(id, beh) == Fn("user", id, beh, "j", Absent, <<>>)
UserSet(id, key, val) == Fn("user", id, "set", key, val, <<>>)
UserDel(id, key) == Fn("user", id, "del", key, Absent, <<>>)
UserDefine(id, key, val) == Fn("user", id, "define", key, val, <<>>)
\* The handler given to derive(): returns {key: val}, or fails (beh "reject").
Derive(id, beh, key, val) == Fn("derive", id, beh, key, val, <<>>)
\* The predicate given to guard(): ctx[key] === val.
Gate(id, key, val) == Fn("gate", id, "", key, val, <<>>)
\* The same predicate as an async function.
AsyncGate(id, key, val) == Fn("gate", id, "async", key, val, <<>>)
Isolated(body) == Fn("isolated", 0, "", "j", Absent, body)
\* decorate(values): values is {key: val}.
Decorate(id, key, val) == Fn("decorate", id, "", key, val, <<>>)
\* guard(predicate, ...middleware): predicate ctx[key] === val.
GuardWith(id, key, val, body) == Fn("guardWith", id, "", key, val, body)
\* branch(predicate, onTrue, onFalse?): predicate ctx[key] === val; onFalse is
\* the empty sequence or holds the one middleware.
Branch(id, key, val, onTrue, onFalse) == Fn("branch", id, "", key, val, <<onTrue>> \o onFalse)
\* route(router, cases, fallback?): router returns ctx[key]; cases[v] handles
\* the key v; fallback is the empty sequence or holds the one middleware.
Route(id, key, cases, fallback) ==
    Fn("route", id, IF fallback = <<>> THEN "" ELSE "fallback", key, Absent,
       cases \o fallback)
Tap(id, body) == Fn("tap", id, "", "j", Absent, body)
\* lazy(factory): the factory returns the middleware mw, or fails (beh "reject").
Lazy(id, beh, mw) == Fn("lazy", id, beh, "j", Absent, <<mw>>)
Fork(id, body) == Fn("fork", id, "", "j", Absent, body)
\* The derive hook of a macro: returns {key: val} (beh "value"), null or
\* undefined.
DeriveFn(id, beh, key, val) == Fn("deriveFn", id, beh, key, val, <<>>)
\* The step buildFromOptions builds around a macro's derive hook.
MacroDerive(deriveFn) ==
    Fn("macroDerive", deriveFn.id, deriveFn.beh, deriveFn.key, deriveFn.val, <<>>)
\* compose(fns) used as one middleware: the chain of a route() case given as
\* a Composer, as an array or through the route builder.
Chain(fns) == Fn("chain", 0, "", "j", Absent, fns)
\* The traced wrapper of the entry at index i, of the given type.
Traced(i, type, orig) == Fn("traced", i, type, "j", Absent, <<orig>>)
Compiled(c, fns) == Fn("compiled", c, "", "j", Absent, fns)
\* Error handlers (types.ts ErrorHandler<T>): beh is what the handler does with
\* the failure: "undef" returns undefined, "val" returns val, "throw" re-raises.
Handler(id, beh) == [id |-> id, beh |-> beh, val |-> id]

(***************************************************************************)
(* Continuations (types.ts Next).                                          *)
(***************************************************************************)
Cont(t, inv, i) == [t |-> t, inv |-> inv, i |-> i]
NoNext == Cont("none", 0, 0)        \* next parameter left undefined
noopNext == Cont("noop", 0, 0)      \* utils.ts noopNext
Terminal == Cont("term", 0, 0)      \* caller-supplied terminal continuation
Disp(inv, i) == Cont("disp", inv, i)  \* () => dispatch(i) of invocation inv

(***************************************************************************)
(* Settled results.                                                        *)
(***************************************************************************)
NoRet == [st |-> "none", val |-> 0, err |-> ""]
Ok(v) == [st |-> "ok", val |-> v, err |-> ""]
Reject(e) == [st |-> "reject", val |-> 0, err |-> e]
Throw(e) == [st |-> "throw", val |-> 0, err |-> e]
MultiErr == "next() called multiple times"

Ev(e, id, seen, x) == [e |-> e, id |-> id, seen |-> seen, x |-> x]

Frame(fn, next, tc) ==
    [fn |-> fn, next |-> next, pc |-> 0, tc |-> tc,
     preKeys |-> {}, snapshot |-> EmptyCtx, err |-> "", kind |-> "", h |-> 1]

(***************************************************************************)
(* The machine m = [stack, invs, ret, ctx, fixed, log, tasks].             *)
(***************************************************************************)
Top(m) == m.stack[Len(m.stack)]
SetTop(m, f) == [m EXCEPT !.stack[Len(m.stack)] = f]
SetPc(m, pc) == [m EXCEPT !.stack[Len(m.stack)].pc = pc]
Push(m, fn, next, tc) ==
    [m EXCEPT !.stack = Append(@, Frame(fn, next, tc)), !.ret = NoRet]
Settle(m, r) == [m EXCEPT !.ret = r]
Emit(m, e) == [m EXCEPT !.log = Append(@, e)]

RECURSIVE Invoke(_, _)
RECURSIVE dispatch(_, _, _)

\* A dispatch that goes on to the next step by itself when a step returned
\* without calling next().
Pop_autoContinue(m, r) ==
    LET f == Top(m)
        m1 == [m EXCEPT !.stack = SubSeq(@, 1, Len(@) - 1), !.ret = r]
    IN IF f.tc /\ r.st = "ok" /\ m.invs[f.next.inv].lastIndex < f.next.i
       THEN Invoke(m1, f.next)
       ELSE m1

\* A frame returns (or fails) to its caller.  A frame called from dispatch's
\* try block has a synchronous throw converted into a rejection
\* (compose.ts:27-31).
Pop(m, r) ==
    LET f == Top(m)
        r2 == IF f.tc /\ r.st = "throw" THEN Reject(r.err) ELSE r
    IN [m EXCEPT !.stack = SubSeq(@, 1, Len(@) - 1), !.ret = r2]

\* dispatch that takes the steps from the end of the list.
dispatch_reversed(m, inv, i) ==
    IF i <= m.invs[inv].lastIndex
    THEN Settle(m, Reject(MultiErr))
    ELSE LET m1 == [m EXCEPT !.invs[inv].lastIndex = i]
             mws == m.invs[inv].middlewares
             next == m.invs[inv].next
         IN IF i < Len(mws)
            THEN Push(m1, mws[Len(mws) - i], Disp(inv, i + 1), TRUE)
            ELSE IF next.t = "none"
                 THEN Settle(m1, Ok(0))
                 ELSE Invoke(m1, next)

\* dispatch without the lastIndex check.
dispatch_noCheck(m, inv, i) ==
    LET m1 == [m EXCEPT !.invs[inv].lastIndex = i]
        mws == m.invs[inv].middlewares
        next == m.invs[inv].next
    IN IF i < Len(mws)
       THEN Push(m1, mws[i + 1], Disp(inv, i + 1), TRUE)
       ELSE IF next.t = "none"
            THEN Settle(m1, Ok(0))
            ELSE Invoke(m1, next)

\* compose.ts:16-32
dispatch(m, inv, i) ==
    IF i <= m.invs[inv].lastIndex
    THEN Settle(m, Reject(MultiErr))
    ELSE LET m1 == [m EXCEPT !.invs[inv].lastIndex = i]
             mws == m.invs[inv].middlewares
             next == m.invs[inv].next
         IN IF i < Len(mws)
            THEN Push(m1, mws[i + 1], Disp(inv, i + 1), TRUE)
            ELSE IF next.t = "none"
                 THEN Settle(m1, Ok(0))
                 ELSE Invoke(m1, next)

\* Calling a continuation.
Invoke(m, next) ==
    CASE next.t = "noop" -> Settle(m, Ok(0))
      [] next.t = "term" -> Settle(Emit(m, Ev("term", 0, m.ctx, "")), Ok(0))
      [] next.t = "disp" -> dispatch(m, next.inv, next.i)
      [] OTHER -> Settle(m, Throw("next is not a function"))

\* A composed middleware that forgets the terminal it was called with.
compose_dropTerminal(m, middlewares, next) ==
    IF Len(middlewares) = 0
    THEN Settle(m, Ok(0))
    ELSE LET inv == Len(m.invs) + 1
             m1 == [m EXCEPT !.invs = Append(@,
                        [middlewares |-> middlewares, lastIndex |-> -1, next |-> NoNext])]
         IN dispatch(m1, inv, 0)

\* compose.ts:7-36: the composed middleware called with (context, next).
compose(m, middlewares, next) ==
    IF Len(middlewares) = 0
    THEN IF next.t = "none" THEN Settle(m, Ok(0)) ELSE Invoke(m, next)
    ELSE LET inv == Len(m.invs) + 1
             m1 == [m EXCEPT !.invs = Append(@,
                        [middlewares |-> middlewares, lastIndex |-> -1, next |-> next])]
         IN dispatch(m1, inv, 0)

\* A failure seen by an awaiting async function is a rejection of that function.
AsReject(r) == Reject(r.err)

\* A caller-supplied middleware (types.ts:5).
StepUser(m) ==
    LET f == Top(m)
        fn == f.fn
    IN IF f.pc = 0
       THEN LET m1 == Emit(m, Ev("in", fn.id, m.ctx, fn.beh))
            IN CASE fn.beh = "pass" -> Invoke(SetPc(m1, 1), f.next)
                 [] fn.beh = "stop" -> Pop(m1, Ok(0))
                 [] fn.beh = "throw" -> Pop(m1, Throw("E"))
                 [] fn.beh = "reject" -> Pop(m1, Reject("E"))
                 [] fn.beh = "twice" -> Invoke(SetPc(m1, 2), f.next)
                 [] fn.beh = "set" ->
                      Invoke(SetPc([m1 EXCEPT !.ctx[fn.key] = fn.val], 1), f.next)
                 [] fn.beh = "del" ->
                      IF fn.key \in m.fixed
                      THEN Pop(m1, Reject("TypeError"))
                      ELSE Invoke(SetPc([m1 EXCEPT !.ctx[fn.key] = Absent], 1), f.next)
                 [] fn.beh = "define" ->
                      Invoke(SetPc([m1 EXCEPT !.ctx[fn.key] = fn.val,
                                              !.fixed = @ \cup {fn.key}], 1), f.next)
       ELSE IF m.ret.st # "ok"
            THEN Pop(m, AsReject(m.ret))
            ELSE IF f.pc = 2
                 THEN Invoke(SetPc(m, 1), f.next)
                 ELSE Pop(Emit(m, Ev("out", fn.id, m.ctx, fn.beh)), Ok(0))

\* The middleware registered by derive() (part_004:156-160).
StepDerive(m) ==
    LET f == Top(m)
        fn == f.fn
    IN IF f.pc = 0
       THEN LET m1 == Emit(m, Ev("in", fn.id, m.ctx, fn.beh))
            IN IF fn.beh = "reject"
               THEN Pop(m1, Reject("E"))
               ELSE Invoke(SetPc([m1 EXCEPT !.ctx[fn.key] = fn.val], 1), f.next)
       ELSE Pop(m, IF m.ret.st = "ok" THEN m.ret ELSE AsReject(m.ret))

\* The frame on top calls the continuation it was given; the call is logged.
CallNext(m, pc) ==
    Invoke(SetPc(Emit(m, Ev("next", Top(m).fn.id, m.ctx, "")), pc), Top(m).next)

\* A gate that calls its continuation whatever the predicate yields.
StepGate_open(m) ==
    LET f == Top(m)
        fn == f.fn
    IN CASE f.pc = 0 ->
              LET m1 == Emit(m, Ev("in", fn.id, m.ctx, "gate"))
              IN IF fn.beh = "async" THEN SetPc(m1, 3) ELSE CallNext(m1, 1)
         [] f.pc = 3 -> CallNext(m, 1)
         [] OTHER -> Pop(m, IF m.ret.st = "ok" THEN m.ret ELSE AsReject(m.ret))

\* The middleware registered by guard() without handlers (part_004:176-178).
\* A predicate of behaviour "async" returns a promise, which the await
\* settles in a later step: pc 3 when it yields true, pc 4 when false.
StepGate(m) ==
    LET f == Top(m)
        fn == f.fn
    IN CASE f.pc = 0 ->
              LET m1 == Emit(m, Ev("in", fn.id, m.ctx, "gate"))
                  yes == m.ctx[fn.key] = fn.val
              IN IF fn.beh = "async"
                 THEN SetPc(m1, IF yes THEN 3 ELSE 4)
                 ELSE IF yes THEN CallNext(m1, 1) ELSE Pop(m1, Ok(0))
         [] f.pc = 3 -> CallNext(m, 1)
         [] f.pc = 4 -> Pop(m, Ok(0))
         [] OTHER -> Pop(m, IF m.ret.st = "ok" THEN m.ret ELSE AsReject(m.ret))

\* What an async function makes of the settled call it returns or awaits last.
Returned(r) == IF r.st = "ok" THEN r ELSE AsReject(r)

\* The middleware registered by decorate() (part_004:121-124).
StepDecorate(m) ==
    LET f == Top(m)
    IN IF f.pc = 0
       THEN Invoke(SetPc([m EXCEPT !.ctx[f.fn.key] = f.fn.val], 1), f.next)
       ELSE Pop(m, m.ret)

\* A guard that hands its own continuation to the chain of its handlers
\* and does not call it itself.
StepGuardWith_inline(m) ==
    LET f == Top(m)
        fn == f.fn
    IN CASE f.pc = 0 ->
              LET m1 == Emit(m, Ev("in", fn.id, m.ctx, "predicate"))
              IN IF m.ctx[fn.key] = fn.val
                 THEN compose(SetPc(m1, 2), fn.body, f.next)
                 ELSE CallNext(m1, 2)
         [] OTHER -> Pop(m, IF m.ret.st = "ok" THEN Ok(0) ELSE AsReject(m.ret))

\* The middleware registered by guard() with handlers (part_004:183-188).
StepGuardWith(m) ==
    LET f == Top(m)
        fn == f.fn
    IN CASE f.pc = 0 ->
              LET m1 == Emit(m, Ev("in", fn.id, m.ctx, "predicate"))
              IN IF m.ctx[fn.key] = fn.val
                 THEN compose(SetPc(m1, 1), fn.body, noopNext)
                 ELSE CallNext(m1, 2)
         [] f.pc = 1 ->
              IF m.ret.st # "ok"
              THEN Pop(m, AsReject(m.ret))
              ELSE CallNext(m, 2)
         [] OTHER -> Pop(m, IF m.ret.st = "ok" THEN Ok(0) ELSE AsReject(m.ret))

\* The middleware registered by branch() with a predicate function
\* (part_004:215-220).
StepBranch(m) ==
    LET f == Top(m)
        fn == f.fn
    IN IF f.pc = 0
       THEN LET m1 == SetPc(Emit(m, Ev("in", fn.id, m.ctx, "predicate")), 1)
            IN IF m.ctx[fn.key] = fn.val
               THEN Push(m1, fn.body[1], f.next, FALSE)
               ELSE IF Len(fn.body) = 2
                    THEN Push(m1, fn.body[2], f.next, FALSE)
                    ELSE Invoke(m1, f.next)
       ELSE Pop(m, Returned(m.ret))

\* The middleware registered by route() (part_004:285-292).
StepRoute(m) ==
    LET f == Top(m)
        fn == f.fn
        n == IF fn.beh = "fallback" THEN Len(fn.body) - 1 ELSE Len(fn.body)
        key == m.ctx[fn.key]
    IN IF f.pc = 0
       THEN LET m1 == SetPc(Emit(m, Ev("in", fn.id, m.ctx, "router")), 1)
            IN IF key # Absent /\ key <= n
               THEN Push(m1, fn.body[key], f.next, FALSE)
               ELSE IF fn.beh = "fallback"
                    THEN Push(m1, fn.body[Len(fn.body)], f.next, FALSE)
                    ELSE Invoke(m1, f.next)
       ELSE Pop(m, Returned(m.ret))

\* The middleware registered by tap() (part_004:326-329).
StepTap(m) ==
    LET f == Top(m)
    IN CASE f.pc = 0 -> compose(SetPc(m, 1), f.fn.body, noopNext)
         [] f.pc = 1 ->
              IF m.ret.st # "ok"
              THEN Pop(m, AsReject(m.ret))
              ELSE Invoke(SetPc(m, 2), f.next)
         [] OTHER -> Pop(m, Returned(m.ret))

\* The middleware registered by lazy() (part_004:340-343).
StepLazy(m) ==
    LET f == Top(m)
        fn == f.fn
    IN IF f.pc = 0
       THEN LET m1 == SetPc(Emit(m, Ev("in", fn.id, m.ctx, "factory")), 1)
            IN IF fn.beh = "reject"
               THEN Pop(m1, Reject("E"))
               ELSE Push(m1, fn.body[1], f.next, FALSE)
       ELSE Pop(m, Returned(m.ret))

\* A detached chain: scheduled by fork(), not yet started.
NewTask(id, body) ==
    [id |-> id, body |-> body, st |-> "pending", stack |-> <<>>, ret |-> NoRet]

\* A fork that awaits its chain before it goes on.
StepFork_awaited(m) ==
    LET f == Top(m)
    IN CASE f.pc = 0 -> compose(SetPc(m, 1), f.fn.body, noopNext)
         [] f.pc = 1 ->
              IF m.ret.st # "ok"
              THEN Pop(m, AsReject(m.ret))
              ELSE Invoke(SetPc(m, 2), f.next)
         [] OTHER -> Pop(m, Returned(m.ret))

\* The middleware registered by fork() (part_004:303-315): schedules the
\* chain as a microtask and returns next().
StepFork(m) ==
    LET f == Top(m)
    IN IF f.pc = 0
       THEN Invoke(SetPc([m EXCEPT !.tasks = Append(@, NewTask(f.fn.id, f.fn.body))], 1),
                   f.next)
       ELSE Pop(m, m.ret)

\* A traced wrapper that calls the completion callback only when the entry
\* resolved.
StepTraced_successOnly(m) ==
    LET f == Top(m)
        fn == f.fn
    IN IF f.pc = 0
       THEN Push(SetPc(Emit(m, Ev("enter", fn.id, m.ctx, fn.beh)), 1),
                 fn.body[1], f.next, FALSE)
       ELSE IF m.ret.st = "ok"
            THEN Pop(Emit(m, Ev("exit", fn.id, m.ctx, "")), m.ret)
            ELSE Pop(m, AsReject(m.ret))

\* The wrapper compose() builds around an entry when a tracer is installed
\* (part_004:528-538).
StepTraced(m) ==
    LET f == Top(m)
        fn == f.fn
    IN IF f.pc = 0
       THEN Push(SetPc(Emit(m, Ev("enter", fn.id, m.ctx, fn.beh)), 1),
                 fn.body[1], f.next, FALSE)
       ELSE IF m.ret.st = "ok"
            THEN Pop(Emit(m, Ev("exit", fn.id, m.ctx, "")), m.ret)
            ELSE Pop(Emit(m, Ev("exit", fn.id, m.ctx, m.ret.err)), AsReject(m.ret))

\* A cleanup that writes the snapshot back but deletes nothing.
Restore_assignOnly(o, fx, preKeys, snapshot) ==
    [x \in Keys |-> IF x \in preKeys THEN snapshot[x] ELSE o[x]]

\* Cleanup of the snapshot wrapper (part_004:416-422 and 475-481): delete the
\* configurable keys that were not there before, then Object.assign(ctx, snapshot).
Restore(o, fx, preKeys, snapshot) ==
    [x \in Keys |->
        IF x \in preKeys THEN snapshot[x]
        ELSE IF o[x] # Absent /\ x \notin fx THEN Absent
        ELSE o[x]]

\* A wrapper that hands the continuation of the outer chain to the nested
\* chain instead of calling it itself.
StepIsolated_inline(m) ==
    LET f == Top(m)
    IN IF f.pc = 0
       THEN compose(SetPc(m, 1), f.fn.body, f.next)
       ELSE Pop(m, IF m.ret.st = "ok" THEN m.ret ELSE AsReject(m.ret))

\* The snapshot wrapper built by group() and by extend() for local entries
\* (part_004:411-424 and 470-483).
StepIsolated(m) ==
    LET f == Top(m)
    IN CASE f.pc = 0 ->
              compose(SetTop(m, [f EXCEPT !.pc = 1,
                                          !.preKeys = ObjectKeys(m.ctx),
                                          !.snapshot = m.ctx]),
                      f.fn.body, noopNext)
         [] f.pc = 1 ->
              IF m.ret.st # "ok"
              THEN Pop(m, AsReject(m.ret))
              ELSE Invoke(SetPc([m EXCEPT !.ctx = Restore(m.ctx, m.fixed, f.preKeys,
                                                          f.snapshot)], 2),
                          f.next)
         [] OTHER -> Pop(m, IF m.ret.st = "ok" THEN m.ret ELSE AsReject(m.ret))

\* Error classes given to error(): AppError extends Error and is the class of
\* the failure "E" the caller-supplied functions raise; every failure is an
\* Error; nothing is an instance of Other.
ErrorClasses == {"Error", "AppError", "Other"}
InstanceOf(err, errorClass) ==
    \/ errorClass = "Error"
    \/ errorClass = "AppError" /\ err = "E"
NoKind == ""
\* The kind scan of the error boundary (part_004:553-559).
KindOf(err, errorsDefinitions) ==
    LET hits == {i \in 1..Len(errorsDefinitions) :
                    InstanceOf(err, errorsDefinitions[i].val)}
    IN IF hits = {} THEN NoKind
       ELSE errorsDefinitions[CHOOSE i \in hits : \A j \in hits : i <= j].key

\* An error boundary that re-raises the failure when no handler returned a value.
StepCompiled_rethrow(m) ==
    LET f == Top(m)
        onErrors == comp[f.fn.id].onErrors
    IN CASE f.pc = 0 -> compose(SetPc(m, 1), f.fn.body, f.next)
         [] f.pc = 1 ->
              IF m.ret.st = "ok"
              THEN Pop(m, m.ret)
              ELSE Settle(SetTop(m, [f EXCEPT !.pc = 2, !.err = m.ret.err, !.h = 1]),
                          NoRet)
         [] OTHER ->
              IF f.h > Len(onErrors)
              THEN Pop(Emit(m, Ev("console.error", 0, m.ctx, f.err)), Reject(f.err))
              ELSE LET hd == onErrors[f.h]
                       m1 == Emit(m, Ev("handler", hd.id, m.ctx, <<f.err, f.kind>>))
                   IN CASE hd.beh = "val" -> Pop(m1, Ok(hd.val))
                        [] hd.beh = "throw" -> Pop(m1, Reject("H"))
                        [] OTHER -> SetTop(m1, [f EXCEPT !.h = f.h + 1])

\* An error boundary that keeps calling handlers after one returned a value
\* and answers with the last value returned.
StepCompiled_lastWins(m) ==
    LET f == Top(m)
        onErrors == comp[f.fn.id].onErrors
    IN CASE f.pc = 0 -> compose(SetPc(m, 1), f.fn.body, f.next)
         [] f.pc = 1 ->
              IF m.ret.st = "ok"
              THEN Pop(m, m.ret)
              ELSE Settle(SetTop(m, [f EXCEPT !.pc = 2, !.err = m.ret.err, !.h = 1]),
                          NoRet)
         [] OTHER ->
              IF f.h > Len(onErrors)
              THEN Pop(Emit(m, Ev("console.error", 0, m.ctx, f.err)), Ok(0))
              ELSE LET hd == onErrors[f.h]
                       m1 == Emit(m, Ev("handler", hd.id, m.ctx, <<f.err, f.kind>>))
                   IN CASE hd.beh = "val" /\ f.h = Len(onErrors) -> Pop(m1, Ok(hd.val))
                        [] hd.beh = "throw" -> Pop(m1, Reject("H"))
                        [] OTHER -> SetTop(m1, [f EXCEPT !.h = f.h + 1])

\* The error boundary built by Composer.compose() (part_004:548-566).  The
\* handler list is the composer's own array, read when the failure is handled.
StepCompiled(m) ==
    LET f == Top(m)
        onErrors == comp[f.fn.id].onErrors
        kind == KindOf(m.ret.err, comp[f.fn.id].errorsDefinitions)
    IN CASE f.pc = 0 -> compose(SetPc(m, 1), f.fn.body, f.next)
         [] f.pc = 1 ->
              IF m.ret.st = "ok"
              THEN Pop(m, m.ret)
              ELSE Settle(SetTop(m, [f EXCEPT !.pc = 2, !.err = m.ret.err,
                                              !.kind = kind, !.h = 1]),
                          NoRet)
         [] OTHER ->
              IF f.h > Len(onErrors)
              THEN Pop(Emit(m, Ev("console.error", 0, m.ctx, f.err)), Ok(0))
              ELSE LET hd == onErrors[f.h]
                       m1 == Emit(m, Ev("handler", hd.id, m.ctx, <<f.err, f.kind>>))
                   IN CASE hd.beh = "val" -> Pop(m1, Ok(hd.val))
                        [] hd.beh = "throw" -> Pop(m1, Reject("H"))
                        [] OTHER -> SetTop(m1, [f EXCEPT !.h = f.h + 1])

\* compose(fns)(ctx, next) as a step of an outer chain (compose.ts): the
\* chain runs with the outer continuation as its terminal.
StepChain(m) ==
    LET f == Top(m)
    IN IF f.pc = 0
       THEN compose(SetPc(m, 1), f.fn.body, f.next)
       ELSE Pop(m, Returned(m.ret))

\* A macro derive step that goes on whatever the hook returned.
StepMacroDerive_continue(m) ==
    LET f == Top(m)
        fn == f.fn
    IN CASE f.pc = 0 -> SetPc(Emit(m, Ev("in", fn.id, m.ctx, fn.beh)), 1)
         [] f.pc = 1 ->
              IF fn.beh = "value"
              THEN CallNext([m EXCEPT !.ctx[fn.key] = fn.val], 2)
              ELSE CallNext(m, 2)
         [] OTHER -> Pop(m, Returned(m.ret))

\* The step built around a macro's derive hook (macros.ts:60-65): the hook
\* is called and awaited (pc 0); then the chain stops when it returned null
\* or undefined, else its result is assigned to the context and next() is
\* returned (pc 1).
StepMacroDerive(m) ==
    LET f == Top(m)
        fn == f.fn
    IN CASE f.pc = 0 -> SetPc(Emit(m, Ev("in", fn.id, m.ctx, fn.beh)), 1)
         [] f.pc = 1 ->
              IF fn.beh = "value"
              THEN CallNext([m EXCEPT !.ctx[fn.key] = fn.val], 2)
              ELSE Pop(m, Ok(0))
         [] OTHER -> Pop(m, Returned(m.ret))

VMStep(m) ==
    LET k == Top(m).fn.k
    IN CASE k = "user" -> StepUser(m)
         [] k = "derive" -> StepDerive(m)
         [] k = "gate" -> StepGate(m)
         [] k = "isolated" -> StepIsolated(m)
         [] k = "decorate" -> StepDecorate(m)
         [] k = "guardWith" -> StepGuardWith(m)
         [] k = "branch" -> StepBranch(m)
         [] k = "route" -> StepRoute(m)
         [] k = "tap" -> StepTap(m)
         [] k = "lazy" -> StepLazy(m)
         [] k = "fork" -> StepFork(m)
         [] k = "traced" -> StepTraced(m)
         [] k = "macroDerive" -> StepMacroDerive(m)
         [] k = "chain" -> StepChain(m)
         [] OTHER -> StepCompiled(m)

Machine ==
    [stack |-> stack, invs |-> invs, ret |-> ret, ctx |-> ctx, fixed |-> fixed,
     log |-> log, tasks |-> tasks]

SetMachine(m) ==
    /\ stack' = m.stack
    /\ invs' = m.invs
    /\ ret' = m.ret
    /\ ctx' = m.ctx
    /\ fixed' = m.fixed
    /\ log' = m.log
    /\ tasks' = m.tasks
    /\ result' = IF m.stack = <<>> THEN m.ret ELSE result

\* The outermost call: m is the machine right after the call was made.
Start(m, c, fns, next) ==
    /\ stack' = m.stack
    /\ invs' = m.invs
    /\ ret' = m.ret
    /\ ctx' = m.ctx
    /\ fixed' = m.fixed
    /\ log' = m.log
    /\ tasks' = m.tasks
    /\ result' = IF m.stack = <<>> THEN m.ret ELSE NoRet
    /\ call' = [c |-> c, fns |-> fns, next |-> next, ctx0 |-> m.ctx, ops |-> ops,
                options |-> <<>>]
    /\ runs' = runs + 1

NewMachine(c0) ==
    [stack |-> <<>>, invs |-> <<>>, ret |-> NoRet, ctx |-> c0, fixed |-> {},
     log |-> <<>>, tasks |-> <<>>]

\* No call is in progress: the outermost call has settled and so has every
\* detached chain it started.
Idle == stack = <<>> /\ \A t \in 1..Len(tasks) : tasks[t].st = "done"

(***************************************************************************)
(* The Composer registry (part_004).                                       *)
(***************************************************************************)
NC == 5
Composers == 1..NC

\* Seeds handed to the constructor, and what JSON.stringify(seed ?? null)
\* makes of them (part_004:436).  "ab" is {a: 1, b: 2}, "ba" is {b: 2, a: 1},
\* "m100" is {max: 100}, "m200" is {max: 200}.
Seeds == {"undefined", "null", "NaN", "ab", "ba", "m100", "m200"}
JSONstringify(seed) ==
    CASE seed \in {"undefined", "null", "NaN"} -> "null"
      [] seed = "ab" -> "{\"a\":1,\"b\":2}"
      [] seed = "ba" -> "{\"b\":2,\"a\":1}"
      [] seed = "m100" -> "{\"max\":100}"
      [] OTHER -> "{\"max\":200}"
\* Structural (deep) equality of two seeds, an absent seed taken as null.
DeepEqual(s1, s2) ==
    s1 = s2 \/ {s1, s2} = {"ab", "ba"} \/ {s1, s2} = {"undefined", "null"}

\* A dedup key that leaves the seed out.
DedupKey_nameOnly(r) == <<r.name, "">>

\* The dedup key `${name}:${JSON.stringify(seed ?? null)}`, kept as the pair of
\* its two parts (names hold no colon).
DedupKey(r) == <<r.name, JSONstringify(r.seed)>>

\* A plain object used as a map (errorsDefinitions, macros): the sequence of
\* its [key, val] entries in the order Object.entries() lists them, which is
\* the integer-like keys in ascending order and then the other keys in the
\* order they were first assigned.
IndexKeys == {"1", "2"}
IndexOf(key) == IF key = "1" THEN 1 ELSE 2
HasKey(obj, key) == \E i \in 1..Len(obj) : obj[i].key = key
ObjectSet(obj, key, val) ==
    IF HasKey(obj, key)
    THEN [i \in 1..Len(obj) |-> IF obj[i].key = key THEN [key |-> key, val |-> val]
                                 ELSE obj[i]]
    ELSE IF key \in IndexKeys
    THEN LET before == SelectSeq(obj, LAMBDA e : e.key \in IndexKeys
                                                /\ IndexOf(e.key) < IndexOf(key))
             after == SelectSeq(obj, LAMBDA e : ~(e.key \in IndexKeys
                                                  /\ IndexOf(e.key) < IndexOf(key)))
         IN before \o <<[key |-> key, val |-> val]>> \o after
    ELSE Append(obj, [key |-> key, val |-> val])
RECURSIVE ObjectAssign(_, _)
ObjectAssign(target, source) ==
    IF source = <<>> THEN target
    ELSE ObjectAssign(ObjectSet(target, Head(source).key, Head(source).val), Tail(source))

\* The kinds of a registry in the order they were first registered or merged
\* in: kinds holds that order, more the kinds that arrive after them.
RECURSIVE FirstRegistered(_, _)
FirstRegistered(kinds, more) ==
    IF more = <<>> THEN kinds
    ELSE FirstRegistered(IF \E i \in 1..Len(kinds) : kinds[i] = Head(more)
                         THEN kinds ELSE Append(kinds, Head(more)),
                         Tail(more))

\* The registry record; kinds is not a field of the code: it records the
\* order of the error() calls.
NoCompiled == [ref |-> 0, fns |-> <<>>]
NewComposer(name, seed) ==
    [name |-> name, seed |-> seed, middlewares |-> <<>>, onErrors |-> <<>>,
     extended |-> {}, compiled |-> NoCompiled, errorsDefinitions |-> <<>>,
     macros |-> <<>>, tracer |-> 0, kinds |-> <<>>]

Entry(fn, scope, type, plugin) ==
    [fn |-> fn, scope |-> scope, type |-> type, plugin |-> plugin]
Api(op, c, o, x) == [op |-> op, c |-> c, o |-> o, x |-> x]

invalidate(r) == [r EXCEPT !.compiled = NoCompiled]

\* A registration call on composer c that leaves it as r.
Register(c, r, a) ==
    /\ Idle
    /\ ops < MaxOps
    /\ comp' = [comp EXCEPT ![c] = r]
    /\ ops' = ops + 1
    /\ hist' = [hist EXCEPT ![c] = <<>>]
    /\ api' = api (+) SetToBag({a})
    /\ UNCHANGED <<refs, runs, ctx, fixed, stack, invs, ret, log, result, call, tasks, eventQueue>>

use(c, fn) ==
    Register(c, invalidate([comp[c] EXCEPT
                    !.middlewares = Append(@, Entry(fn, "local", "use", ""))]),
             Api("use", c, 0, ""))

derive(c, fn, scope) ==
    Register(c, invalidate([comp[c] EXCEPT
                    !.middlewares = Append(@, Entry(fn, scope, "derive", ""))]),
             Api("derive", c, 0, scope))

guard(c, fn) ==
    Register(c, invalidate([comp[c] EXCEPT
                    !.middlewares = Append(@, Entry(fn, "local", "guard", ""))]),
             Api("guard", c, 0, ""))

onError(c, handler) ==
    Register(c, invalidate([comp[c] EXCEPT !.onErrors = Append(@, handler)]),
             Api("onError", c, 0, ""))

\* The methods that push one local entry and invalidate.
Added(c, fn, scope, type) ==
    invalidate([comp[c] EXCEPT !.middlewares = Append(@, Entry(fn, scope, type, ""))])

\* decorate(values, options?) (part_004:117-130).
decorate(c, fn, scope) ==
    Register(c, Added(c, fn, scope, "decorate"), Api("decorate", c, 0, scope))

\* branch(predicate, onTrue, onFalse?) (part_004:197-225).  predicate is
\* "true" or "false" for a boolean, resolved at registration, and "fn" for a
\* predicate function.
branch(c, predicate, fn) ==
    Register(c,
             CASE predicate = "true" -> Added(c, fn.body[1], "local", "branch")
               [] predicate = "false" /\ Len(fn.body) = 2 ->
                    Added(c, fn.body[2], "local", "branch")
               [] predicate = "false" -> invalidate(comp[c])
               [] OTHER -> Added(c, fn, "local", "branch"),
             Api("branch", c, 0, predicate))

\* route(router, cases, fallback?) (part_004:238-297).
route(c, fn) == Register(c, Added(c, fn, "local", "route"), Api("route", c, 0, ""))

\* fork(...middleware) (part_004:299-320).
fork(c, fn) == Register(c, Added(c, fn, "local", "fork"), Api("fork", c, 0, ""))

\* tap(...middleware) (part_004:322-334).
tap(c, fn) == Register(c, Added(c, fn, "local", "tap"), Api("tap", c, 0, ""))

\* lazy(factory) (part_004:336-348).
lazy(c, fn) == Register(c, Added(c, fn, "local", "lazy"), Api("lazy", c, 0, ""))

\* when(condition, fn) (part_004:360-378): temp is the registry fn has filled.
\* A when() that leaves the dedup keys of the nested registry behind.
when_noKeys(c, condition, temp) ==
    Register(c,
             invalidate(IF condition
                        THEN [comp[c] EXCEPT
                                !.middlewares = @ \o temp.middlewares,
                                !.errorsDefinitions = ObjectAssign(@, temp.errorsDefinitions),
                                !.kinds = FirstRegistered(@, temp.kinds),
                                !.onErrors = @ \o temp.onErrors]
                        ELSE comp[c]),
             Api("when", c, 0, IF condition THEN "true" ELSE "false"))

\* when(condition, fn) (part_004:361-378): temp is the registry fn was given,
\* with what fn registered on it.
when(c, condition, temp) ==
    Register(c,
             invalidate(IF condition
                        THEN [comp[c] EXCEPT
                                !.middlewares = @ \o temp.middlewares,
                                !.errorsDefinitions = ObjectAssign(@, temp.errorsDefinitions),
                                !.kinds = FirstRegistered(@, temp.kinds),
                                !.onErrors = @ \o temp.onErrors,
                                !.extended = @ \cup temp.extended]
                        ELSE comp[c]),
             Api("when", c, 0, IF condition THEN "true" ELSE "false"))

\* error(kind, errorClass) (part_004:382-388): no invalidate().
error(c, kind, errorClass) ==
    Register(c, [comp[c] EXCEPT !.errorsDefinitions = ObjectSet(@, kind, errorClass),
                                !.kinds = FirstRegistered(@, <<kind>>)],
             Api("error", c, 0, kind))

\* macro(name, definition) (part_004:96-106): no invalidate().
macro(c, name, definition) ==
    Register(c, [comp[c] EXCEPT !.macros = ObjectSet(@, name, definition)],
             Api("macro", c, 0, name))

\* trace(handler) (part_004:511-515).
trace(c, handler) ==
    Register(c, invalidate([comp[c] EXCEPT !.tracer = handler]), Api("trace", c, 0, ""))

\* An as() that writes the scope it is given into every entry.
as_demote(c, scope) ==
    Register(c, invalidate([comp[c] EXCEPT
                    !.middlewares = [i \in 1..Len(@) |-> [@[i] EXCEPT !.scope = scope]]]),
             Api("as", c, 0, scope))

\* as(scope) (part_004:392-400).
as(c, scope) ==
    Register(c, invalidate([comp[c] EXCEPT
                    !.middlewares = [i \in 1..Len(@) |->
                        IF scope = "global" \/ @[i].scope = "local"
                        THEN [@[i] EXCEPT !.scope = scope]
                        ELSE @[i]]]),
             Api("as", c, 0, scope))

\* group(fn): body is what fn registered on the nested Composer.
group(c, body) ==
    Register(c, invalidate([comp[c] EXCEPT
                    !.middlewares = Append(@, Entry(Isolated(body), "local", "group", ""))]),
             Api("group", c, 0, ""))

isNew(m, alreadyExtended) ==
    \/ m.plugin = ""
    \/ ~\E key \in alreadyExtended : key[1] = m.plugin

Fns(mws) == [i \in 1..Len(mws) |-> mws[i].fn]
OrElse(a, b) == IF a # "" THEN a ELSE b

\* Values given as a route() case: a Composer (the composer c), an array of
\* middleware, or one middleware.
CaseComposer(c) == [is |-> "Composer", c |-> c, fns |-> <<>>]
CaseArray(fns) == [is |-> "Array", c |-> 0, fns |-> fns]
CaseMiddleware(fn) == [is |-> "function", c |-> 0, fns |-> <<fn>>]

\* A resolution that takes the Composer's compose(), error boundary included.
resolveRouteHandler_boundary(handler) ==
    CASE handler.is = "Composer" ->
            Compiled(handler.c, Fns(comp[handler.c].middlewares))
      [] handler.is = "Array" -> Chain(handler.fns)
      [] OTHER -> handler.fns[1]

\* resolveRouteHandler(handler) (part_004:38-49)
resolveRouteHandler(handler) ==
    CASE handler.is = "Composer" -> Chain(Fns(comp[handler.c].middlewares))
      [] handler.is = "Array" -> Chain(handler.fns)
      [] OTHER -> handler.fns[1]

\* The case the route builder makes of the Composer that route.on(key)
\* returned (part_004:254-270).
builderCase(c) == Chain(Fns(comp[c].middlewares))

\* extend(other) (part_004:431-500): the target's record after the call.
Extended(this, other) ==
    IF other.name # "" /\ DedupKey(other) \in this.extended
    THEN this
    ELSE LET ext1 == IF other.name # ""
                     THEN this.extended \cup {DedupKey(other)}
                     ELSE this.extended
             alreadyExtended == ext1
             pluginName == other.name
             Pick(scope) == SelectSeq(other.middlewares,
                               LAMBDA e : e.scope = scope /\ isNew(e, alreadyExtended))
             localMws == Pick("local")
             scopedMws == Pick("scoped")
             globalMws == Pick("global")
             isolated == IF Len(localMws) > 0
                         THEN <<Entry(Isolated(Fns(localMws)), "local", "extend", pluginName)>>
                         ELSE <<>>
             Moved(mws, scope) ==
                 [i \in 1..Len(mws) |->
                     Entry(mws[i].fn, scope, mws[i].type, OrElse(mws[i].plugin, pluginName))]
         IN invalidate([this EXCEPT
                !.extended = ext1 \cup other.extended,
                !.errorsDefinitions = ObjectAssign(@, other.errorsDefinitions),
                !.kinds = FirstRegistered(@, other.kinds),
                !.macros = ObjectAssign(@, other.macros),
                !.onErrors = @ \o other.onErrors,
                !.middlewares = @ \o isolated \o Moved(scopedMws, "local")
                                  \o Moved(globalMws, "global")])

\* An extend() that does not remember what the target has merged.
extend_forgetful(t, o) ==
    Register(t, Extended([comp[t] EXCEPT !.extended = {}], comp[o]),
             Api("extend", t, o, ""))

extend(t, o) ==
    Register(t, Extended(comp[t], comp[o]), Api("extend", t, o, ""))

\* The functions compose() chains (part_004:522-541): the entries' own, or
\* their traced wrappers when a tracer is installed.
ChainFns(r) ==
    IF r.tracer # 0
    THEN [i \in 1..Len(r.middlewares) |->
             Traced(i - 1, r.middlewares[i].type, r.middlewares[i].fn)]
    ELSE Fns(r.middlewares)

\* A compose() that builds a new closure on every call.
Compile_always(r, ref) ==
    [r EXCEPT !.compiled = [ref |-> ref, fns |-> ChainFns(r)]]

\* Composer.compose() (part_004:517-569): the record after the call; ref is
\* the identity a newly built closure gets.
Compile(r, ref) ==
    IF r.compiled.ref # 0
    THEN r
    ELSE [r EXCEPT !.compiled = [ref |-> ref, fns |-> ChainFns(r)]]

Composer_compose(c) ==
    /\ Idle
    /\ Len(hist[c]) < MaxCalls
    /\ comp' = [comp EXCEPT ![c] = Compile(@, refs + 1)]
    /\ refs' = IF comp'[c].compiled.ref > refs THEN refs + 1 ELSE refs
    /\ hist' = [hist EXCEPT ![c] = Append(@, comp'[c].compiled.ref)]
    /\ UNCHANGED <<ops, runs, ctx, fixed, stack, invs, ret, log, result, call, api,
                   tasks, eventQueue>>

\* run(context, next?) (part_004:571-573); viaRun = FALSE is compose()(context, next?).
run(c, c0, next, viaRun) ==
    /\ Idle
    /\ runs < MaxRuns
    /\ Len(hist[c]) < MaxCalls
    /\ comp' = [comp EXCEPT ![c] = Compile(@, refs + 1)]
    /\ refs' = IF comp'[c].compiled.ref > refs THEN refs + 1 ELSE refs
    /\ hist' = [hist EXCEPT ![c] = Append(@, comp'[c].compiled.ref)]
    /\ LET compiled == comp'[c].compiled
           nx == IF viaRun /\ next = NoNext THEN noopNext ELSE next
       IN Start(Push(NewMachine(c0), Compiled(c, compiled.fns), nx, FALSE),
                c, compiled.fns, nx)
    /\ UNCHANGED <<ops, api, eventQueue>>

(***************************************************************************)
(* Initial state: the composers have been constructed, nothing is running. *)
(***************************************************************************)
\* new EventQueue(handler) (part_007:5-14).  idleResolvers holds the numbers
\* of the onIdle() promises that wait.  The other fields are not fields of the
\* code; they record what the callers and the handlers have seen:
\*   added, started  the events in the order they were appended and the order
\*                their handlers were called
\*   settled      the events whose handler has settled, with the outcome
\*   whileActive  the events appended while the instance was active
\*   inside       the events appended from the synchronous part of a handler
\*   waiters      the number of onIdle() promises made so far
\*   resolved     the onIdle() promises resolved so far, each with the length
\*                of the backlog and the number of handlers in flight then
\*   stops        the stop() calls: the onIdle() promise each races, whether
\*                its timer has fired, and whether stop() has returned
\*   startedAtStop  the number of handlers called before the first stop()
\*   unhandled    the events whose handler's rejection nothing caught
\*   sync         by event, what the handler does with it before its first
\*                await (SyncParts)
NewEventQueue ==
    [queue |-> <<>>, pendingUpdates |-> {}, active |-> TRUE, idleResolvers |-> <<>>,
     added |-> <<>>, started |-> <<>>, settled |-> {},
     whileActive |-> {}, inside |-> {}, waiters |-> 0, resolved |-> <<>>,
     stops |-> <<>>, startedAtStop |-> 0, unhandled |-> {}, sync |-> <<>>]

InitRun ==
    /\ eventQueue = NewEventQueue
    /\ refs = 0
    /\ ops = 0
    /\ runs = 0
    /\ ctx = EmptyCtx
    /\ fixed = {}
    /\ stack = <<>>
    /\ invs = <<>>
    /\ ret = NoRet
    /\ log = <<>>
    /\ result = NoRet
    /\ hist = [c \in Composers |-> <<>>]
    /\ call = [c |-> 0, fns |-> <<>>, next |-> NoNext, ctx0 |-> EmptyCtx, ops |-> 0,
               options |-> <<>>]
    /\ api = EmptyBag
    /\ tasks = <<>>

Init ==
    /\ comp = [c \in Composers |-> NewComposer("", "undefined")]
    /\ InitRun

\* One continuation step of the invocation in progress.
Step ==
    /\ stack # <<>>
    /\ SetMachine(VMStep(Machine))
    /\ UNCHANGED <<comp, refs, ops, runs, hist, call, api, eventQueue>>

\* One step of the detached chain t that fork() scheduled (part_004:304-314):
\* the microtask calls chain(ctx, noopNext) on the context of the invocation,
\* and whatever the chain settles with is dropped.
StepTask(t) ==
    /\ tasks[t].st # "done"
    /\ LET tk == tasks[t]
           m0 == [Machine EXCEPT !.stack = tk.stack, !.ret = tk.ret]
           m1 == IF tk.st = "pending" THEN compose(m0, tk.body, noopNext)
                 ELSE VMStep(m0)
       IN /\ tasks' = [m1.tasks EXCEPT ![t] =
                          [@ EXCEPT !.st = IF m1.stack = <<>> THEN "done" ELSE "running",
                                    !.stack = m1.stack,
                                    !.ret = m1.ret]]
          /\ invs' = m1.invs
          /\ ctx' = m1.ctx
          /\ fixed' = m1.fixed
          /\ log' = m1.log
    /\ UNCHANGED <<comp, refs, ops, runs, stack, ret, result, hist, call, api, eventQueue>>

(***************************************************************************)
(* The standalone executor: compose(steps)(context, terminal?).            *)
(***************************************************************************)
Behaviours == {"pass", "stop", "throw", "reject", "twice"}
StepLists ==
    UNION {[1..n -> Behaviours] : n \in 0..MaxSteps}
Steps(bs) == [i \in 1..Len(bs) |-> User(i, bs[i])]

ComposeCall(bs, next) ==
    /\ Idle
    /\ runs < MaxRuns
    /\ Start(compose(NewMachine(EmptyCtx), Steps(bs), next), 0, Steps(bs), next)
    /\ UNCHANGED <<comp, refs, ops, hist, api, eventQueue>>

NextOnion ==
    \/ \E bs \in StepLists, next \in {NoNext, Terminal} : ComposeCall(bs, next)
    \/ Step

SpecOnion == Init /\ [][NextOnion]_vars

(***************************************************************************)
(* Properties of the standalone executor.                                  *)
(***************************************************************************)
Done == Idle /\ runs > 0
\* The call in progress (or just finished) is on composer c, and nothing was
\* registered since it started.
Running(c) == call.c = c /\ call.ops = ops
AnyRun == call.c # 0 /\ call.ops = ops
LogIds == [i \in 1..Len(log) |-> <<log[i].e, log[i].id>>]
Started(id) == \E i \in 1..Len(log) : log[i].e = "in" /\ log[i].id = id
TerminalStarted == \E i \in 1..Len(log) : log[i].e = "term"
Onion(n) == [i \in 1..(2 * n) |-> IF i <= n THEN <<"in", i>> ELSE <<"out", 2 * n + 1 - i>>]
EveryStepAwaitsNextOnce == \A i \in 1..Len(call.fns) : call.fns[i].beh = "pass"

\* C1: when every step calls its continuation exactly once and awaits it, a
\* call of compose(steps) without terminal resolves, and the steps were entered
\* once each in list order and left in reverse list order.
C1_OnionOrder ==
    (Done /\ call.c = 0 /\ call.next = NoNext /\ EveryStepAwaitsNextOnce)
        => /\ result.st = "ok"
           /\ LogIds = Onion(Len(call.fns))

C1_Witness ==
    /\ Done /\ call.c = 0 /\ call.next = NoNext /\ EveryStepAwaitsNextOnce
    /\ Len(call.fns) = MaxSteps
    /\ Len(log) = 2 * MaxSteps

\* C2: a step that returns without calling its continuation keeps every later
\* step and the terminal from starting; when the steps before it pass, the
\* call still resolves.
C2_ShortCircuit ==
    \A i \in 1..Len(call.fns) :
        (call.c = 0 /\ call.fns[i].beh = "stop")
            => /\ \A j \in (i + 1)..Len(call.fns) : ~Started(j)
               /\ ~TerminalStarted
               /\ (Done /\ \A j \in 1..(i - 1) : call.fns[j].beh = "pass")
                      => result.st = "ok"

C2_Witness ==
    /\ Done /\ call.c = 0 /\ call.next = Terminal
    /\ Len(call.fns) = 3
    /\ call.fns[1].beh = "pass" /\ call.fns[2].beh = "stop" /\ call.fns[3].beh = "pass"
    /\ Started(2)
    /\ result.st = "ok"

(***************************************************************************)
(* The error boundary: one composer with failing steps and error handlers. *)
(***************************************************************************)
NextErr ==
    \/ \E beh \in {"pass", "throw", "reject", "twice"} :
          /\ Len(comp[1].middlewares) < MaxMws
          /\ use(1, User(Len(comp[1].middlewares) + 1, beh))
    \/ \E beh \in {"undef", "val", "throw"} :
          /\ Len(comp[1].onErrors) < MaxHandlers
          /\ onError(1, Handler(Len(comp[1].onErrors) + 1, beh))
    \/ \E next \in {NoNext, Terminal}, viaRun \in BOOLEAN :
          run(1, EmptyCtx, next, viaRun)
    \/ Step

SpecErr == Init /\ [][NextErr]_vars

Failed == \E i \in 1..Len(log) : log[i].e = "in" /\ log[i].x \in {"throw", "reject", "twice"}
Logged(e) == \E i \in 1..Len(log) : log[i].e = e
HandlerLog == SelectSeq(log, LAMBDA e : e.e = "handler")
\* The failure that reaches the boundary when the chain holds only passing,
\* failing and twice-continuing steps.
ChainError ==
    IF \E i \in 1..Len(call.fns) : call.fns[i].beh \in {"throw", "reject"}
    THEN "E" ELSE MultiErr

\* C3: when a step of the compiled chain fails and every registered error
\* handler returns undefined, compose()(ctx) and run(ctx) resolve, and the
\* failure went to console.error.
C3_Swallowed ==
    (/\ Done /\ AnyRun
     /\ \A h \in 1..Len(comp[call.c].onErrors) : comp[call.c].onErrors[h].beh = "undef")
        => /\ result.st = "ok"
           /\ Failed => Logged("console.error")

C3_Witness ==
    /\ Done /\ AnyRun /\ Failed
    /\ Len(comp[call.c].onErrors) = 2
    /\ \A h \in 1..Len(comp[call.c].onErrors) : comp[call.c].onErrors[h].beh = "undef"
    /\ Len(HandlerLog) = 2
    /\ result = Ok(0)
    /\ Logged("console.error")

\* Index of the first handler that does not return undefined (one past the
\* end when there is none).
FirstSettling(hs) ==
    IF \E i \in 1..Len(hs) : hs[i].beh # "undef"
    THEN CHOOSE i \in 1..Len(hs) :
            /\ hs[i].beh # "undef"
            /\ \A j \in 1..(i - 1) : hs[j].beh = "undef"
    ELSE Len(hs) + 1

Base(c) == 10 * c
NestedBase == Base(1)
NestedStep(id) ==
    {UserSet(id, "k", 2), UserSet(id, "j", 2), UserDel(id, "j"), UserDefine(id, "k", 2)}
RECURSIVE NestedBodies(_)
NestedBodies(n) ==
    IF n = 0 THEN {<<>>}
    ELSE LET shorter == NestedBodies(n - 1)
         IN shorter \cup
            {Append(b, st) : b \in {x \in shorter : Len(x) = n - 1},
                             st \in NestedStep(NestedBase + n)}
HasIsolated(c) ==
    \E i \in 1..Len(comp[c].middlewares) : comp[c].middlewares[i].fn.k = "isolated"
Contexts == [Keys -> {Absent, 1}]

NextIso ==
    \/ /\ Len(comp[1].middlewares) <= MaxMws
       /\ use(1, User(Len(comp[1].middlewares) + 1, "pass"))
    \/ \E body \in NestedBodies(MaxNested) :
          /\ ~HasIsolated(1)
          /\ comp[2].middlewares = <<>>
          /\ group(1, body)
    \/ \E st \in NestedStep(NestedBase + Len(comp[2].middlewares) + 1) :
          /\ ~HasIsolated(1)
          /\ Len(comp[2].middlewares) < MaxNested
          /\ use(2, st)
    \/ /\ ~HasIsolated(1)
       /\ extend(1, 2)
    \/ \E c0 \in Contexts : run(1, c0, NoNext, TRUE)
    \/ Step

SpecIso == Init /\ [][NextIso]_vars

OwnEvents == {i \in 1..Len(log) : log[i].e \in {"in", "out"} /\ log[i].id < NestedBase}
NestedEvents == {i \in 1..Len(log) : log[i].e = "in" /\ log[i].id > NestedBase}

\* C5: the steps of the outer registry see every removable key as the caller
\* passed it, whatever the steps of a group() or of a local plugin added,
\* overwrote or deleted before them; so does the caller after the run.
C5_Isolation ==
    Running(1) =>
        /\ \A i \in OwnEvents : \A x \in Keys \ fixed : log[i].seen[x] = call.ctx0[x]
        /\ Done => \A x \in Keys \ fixed : ctx[x] = call.ctx0[x]

C5_Witness ==
    /\ Done /\ Running(1)
    /\ call.ctx0 = [x \in Keys |-> IF x = "j" THEN 1 ELSE Absent]
    /\ \E i, j \in NestedEvents :
          /\ log[i].x = "set" /\ log[j].x = "del" /\ i < j
          /\ log[j].seen["k"] = 2
          /\ \E o \in OwnEvents : o > j /\ log[o].e = "in" /\ log[o].seen = call.ctx0
    /\ ctx = call.ctx0

(***************************************************************************)
(* Scopes across three levels: composer 1 is the child, extended into the  *)
(* parent 2, which is extended into the grandparent 3.  The child          *)
(* registers derives (each writes the value Derived under a key of its     *)
(* own) and gates, and may promote itself with as(); the parent and the    *)
(* grandparent register observing steps of their own.  A registry is       *)
(* complete when it is extended into the next one.                         *)
(***************************************************************************)
Derived == 2
Child == 1
Parent == 2
Grand == 3
Merged(t, o) == Api("extend", t, o, "") \in BagToSet(api)
DerivedKeys(c) ==
    {comp[c].middlewares[i].fn.key : i \in {n \in 1..Len(comp[c].middlewares) :
                                              comp[c].middlewares[n].type = "derive"}}
ScopeContexts == {o \in [Keys -> {Absent, 1}] : o["k"] = Absent}

NextScope ==
    \/ \E x \in Keys \ DerivedKeys(Child), scope \in {"local", "scoped", "global"} :
          /\ ~Merged(Parent, Child)
          /\ Len(comp[Child].middlewares) < MaxNested
          /\ derive(Child, Derive(Base(Child) + Len(comp[Child].middlewares) + 1,
                                  "ok", x, Derived), scope)
    \/ /\ ~Merged(Parent, Child)
       /\ Len(comp[Child].middlewares) < MaxNested
       /\ guard(Child, Gate(Base(Child) + Len(comp[Child].middlewares) + 1, "j", 1))
    \/ \E scope \in {"scoped", "global"} :
          /\ ~Merged(Parent, Child)
          /\ comp[Child].middlewares # <<>>
          /\ Api("as", Child, 0, scope) \notin BagToSet(api)
          /\ as(Child, scope)
    \/ /\ ~Merged(Parent, Child)
       /\ comp[Child].middlewares # <<>>
       /\ extend(Parent, Child)
    \/ \E c \in {Parent, Grand} :
          /\ Merged(c, c - 1)
          /\ c = Parent => ~Merged(Grand, Parent)
          /\ Cardinality({i \in 1..Len(comp[c].middlewares) :
                             comp[c].middlewares[i].type = "use"}) < MaxOwn
          /\ use(c, User(Base(c) + Len(comp[c].middlewares) + 1, "pass"))
    \/ /\ Merged(Parent, Child)
       /\ ~Merged(Grand, Parent)
       /\ extend(Grand, Parent)
    \/ \E c \in {Parent, Grand}, c0 \in ScopeContexts : run(c, c0, NoNext, TRUE)
    \/ Step

SpecScope == Init /\ [][NextScope]_vars

\* The steps a registry registered itself after it extended another one.
Following(c) ==
    {comp[c].middlewares[p].fn.id : p \in {n \in 1..Len(comp[c].middlewares) :
        /\ comp[c].middlewares[n].type = "use"
        /\ \E q \in 1..(n - 1) : comp[c].middlewares[q].type # "use"}}
Entered(ids) == {i \in 1..Len(log) : log[i].e = "in" /\ log[i].id \in ids}
Sees(i, x) == log[i].seen[x] = Derived
ChildDerives(scope) ==
    {comp[Child].middlewares[n].fn.key : n \in {i \in 1..Len(comp[Child].middlewares) :
        /\ comp[Child].middlewares[i].type = "derive"
        /\ comp[Child].middlewares[i].scope = scope}}

\* C6: in a run of the parent or of the grandparent, a key derived by a
\* scoped child entry is seen by every following step of the parent and by
\* no step of the grandparent; a key derived by a global entry is seen by the
\* following steps of both; a key derived by a local entry by none.
C6_ScopeVisibility ==
    (AnyRun /\ Merged(Parent, Child)) =>
        /\ \A x \in ChildDerives("scoped") :
              /\ \A i \in Entered(Following(Parent)) : Sees(i, x)
              /\ \A i \in Entered(Following(Grand)) : ~Sees(i, x)
        /\ \A x \in ChildDerives("global") :
              \A i \in Entered(Following(Parent) \cup Following(Grand)) : Sees(i, x)
        /\ \A x \in ChildDerives("local") :
              \A i \in Entered(Following(Parent) \cup Following(Grand)) : ~Sees(i, x)

\* The same, with every registry judged by its own steps in its own run.
C6_OwnRun ==
    (AnyRun /\ Merged(Parent, Child)) =>
        /\ \A x \in ChildDerives("scoped") :
              /\ call.c = Parent => \A i \in Entered(Following(Parent)) : Sees(i, x)
              /\ \A i \in Entered(Following(Grand)) : ~Sees(i, x)
        /\ \A x \in ChildDerives("global") :
              \A i \in Entered(Following(call.c)) : Sees(i, x)
        /\ \A x \in ChildDerives("local") :
              \A i \in Entered(Following(Parent) \cup Following(Grand)) : ~Sees(i, x)

ChildGates(scopes) ==
    {comp[Child].middlewares[n].fn.id : n \in {i \in 1..Len(comp[Child].middlewares) :
        /\ comp[Child].middlewares[i].type = "guard"
        /\ comp[Child].middlewares[i].scope \in scopes}}
Closed(i) == log[i].x = "gate" /\ log[i].seen["j"] # 1
ParentRan == Running(Parent) /\ Merged(Parent, Child) /\ Done

Target == 4
Plugins == {1, 2}
InitSeed ==
    /\ \E name \in {"", "p"}, seeds \in [Plugins -> Seeds] :
          comp = [c \in Composers |->
                    IF c \in Plugins THEN NewComposer(name, seeds[c])
                    ELSE NewComposer("", "undefined")]
    /\ InitRun

ExtendCalls(t, o) == CopiesIn(Api("extend", t, o, ""), api)

NextSeed ==
    \/ \E c \in Plugins :
          /\ comp[c].middlewares = <<>>
          /\ use(c, User(c, "pass"))
    \/ \E c \in Plugins :
          /\ comp[c].middlewares # <<>>
          /\ extend(Target, c)
    \/ run(Target, EmptyCtx, NoNext, TRUE)
    \/ Step

SpecSeed == InitSeed /\ [][NextSeed]_vars

Count(id) == Cardinality(Entered({id}))
TargetRan == Running(Target) /\ Done
Merging == {c \in Plugins : ExtendCalls(Target, c) > 0}
RECURSIVE Sum(_)
Sum(ids) == IF ids = {} THEN 0
            ELSE LET id == CHOOSE x \in ids : TRUE IN Count(id) + Sum(ids \ {id})
SameSeed(a, b) == comp[a].name = comp[b].name /\ DeepEqual(comp[a].seed, comp[b].seed)
SameKey(a, b) ==
    comp[a].name = comp[b].name /\ JSONstringify(comp[a].seed) = JSONstringify(comp[b].seed)

\* C7 as stated: after a run of the target, the plugins extended into it
\* that have one name and structurally equal seeds have executed once in
\* all (so plugins of the same name and different seeds have each executed),
\* and an unnamed plugin has executed once per extend() call.
C7_SeedDedup ==
    TargetRan =>
        \A c \in Merging :
            IF comp[c].name # ""
            THEN Sum({d \in Merging : SameSeed(c, d)}) = 1
            ELSE Count(c) = ExtendCalls(Target, c)

\* C7, amended: the same, with the seeds compared by their serialization
\* JSON.stringify(seed ?? null).
C7_SerializedSeed ==
    TargetRan =>
        \A c \in Merging :
            IF comp[c].name # ""
            THEN Sum({d \in Merging : SameKey(c, d)}) = 1
            ELSE Count(c) = ExtendCalls(Target, c)

C7_Witness ==
    /\ TargetRan
    /\ comp[1].name = "p" /\ comp[1].seed = "m100" /\ comp[2].seed = "m200"
    /\ ExtendCalls(Target, 1) = 2 /\ ExtendCalls(Target, 2) = 2
    /\ Count(1) = 1 /\ Count(2) = 1

(***************************************************************************)
(* Transitive deduplication: composers 1, 2 and 3 are the plugins "A",     *)
(* "B" and "C"; each may register one step of its own and extend the       *)
(* plugins below it, and is complete once something extends it.  Target    *)
(* extends them in any order.                                              *)
(***************************************************************************)
Named == {1, 2, 3}
PluginName(c) == CASE c = 1 -> "A" [] c = 2 -> "B" [] OTHER -> "C"
InitDedup ==
    /\ comp = [c \in Composers |->
                 IF c \in Named THEN NewComposer(PluginName(c), "undefined")
                 ELSE NewComposer("", "undefined")]
    /\ InitRun

Edge(t, o) == ExtendCalls(t, o) > 0
Complete(c) == \E t \in Composers : Edge(t, c)

NextDedup ==
    \/ \E c \in Named :
          /\ ~Complete(c)
          /\ \A i \in 1..Len(comp[c].middlewares) : comp[c].middlewares[i].type # "use"
          /\ use(c, User(c, "pass"))
    \/ \E t \in Named \cup {Target}, o \in Named :
          /\ o < t
          /\ ~Complete(t)
          /\ extend(t, o)
    \/ run(Target, EmptyCtx, NoNext, TRUE)
    \/ Step

SpecDedup == InitDedup /\ [][NextDedup]_vars

\* The plugins that reach the target, directly or through intermediates.
Reaches(c) ==
    \/ Edge(Target, c)
    \/ \E m \in Named : Edge(Target, m) /\ Edge(m, c)
    \/ \E m, n \in Named : Edge(Target, m) /\ Edge(m, n) /\ Edge(n, c)
HasOwnStep(c) ==
    \E i \in 1..Len(comp[c].middlewares) : comp[c].middlewares[i].type = "use"

\* C8: after a run of the target, the own step of every named plugin that
\* reaches the target, directly or through intermediates and in whatever
\* order, has executed exactly once.
C8_TransitiveDedup ==
    TargetRan => \A c \in Named : (HasOwnStep(c) /\ Reaches(c)) => Count(c) = 1

(***************************************************************************)
(* The compiled cache: registration calls, compose() calls and runs of     *)
(* composer 1 in any order.  hist[1] holds the references compose() has    *)
(* returned, to the caller or to run(), since the last registration call.  *)
(***************************************************************************)
NextCache ==
    \/ \E beh \in {"pass", "stop"} :
          /\ Len(comp[1].middlewares) < MaxMws
          /\ use(1, User(Len(comp[1].middlewares) + 1, beh))
    \/ /\ Len(comp[1].onErrors) < MaxOwn
       /\ onError(1, Handler(Len(comp[1].onErrors) + 1, "undef"))
    \/ /\ comp[1].middlewares # <<>>
       /\ Api("as", 1, 0, "scoped") \notin BagToSet(api)
       /\ as(1, "scoped")
    \/ Composer_compose(1)
    \/ \E viaRun \in BOOLEAN : run(1, EmptyCtx, NoNext, viaRun)
    \/ Step

SpecCache == Init /\ [][NextCache]_vars

\* C10: the references compose() has returned since the last registration
\* call on a composer, to its caller or to run(), are one and the same.
C10_ComposeIdempotent ==
    \A c \in Composers : \A i, j \in 1..Len(hist[c]) : hist[c][i] = hist[c][j]

C10_Witness ==
    /\ Done /\ Running(1)
    /\ comp[1].middlewares # <<>>
    /\ Len(hist[1]) >= 3
    /\ refs >= 2
    /\ \A i \in 1..Len(hist[1]) : hist[1][i] = comp[1].compiled.ref

(***************************************************************************)
(* Invalidation: every registration method called on composer 1, which     *)
(* extends the named plugin 2, with compose() calls and runs in between.   *)
(***************************************************************************)
Plugin == 2
InitReg ==
    /\ comp = [c \in Composers |->
                 IF c = Plugin THEN NewComposer("p", "undefined")
                 ELSE NewComposer("", "undefined")]
    /\ InitRun

Once(op) == \A a \in BagToSet(api) : a.c = 1 => a.op # op
Inner(id) == User(id + 10, "pass")
\* What the callback of when() has registered on the composer it is given.
Temp(id) == [NewComposer("", "undefined") EXCEPT
                !.middlewares = <<Entry(Inner(id), "local", "use", "")>>]

\* Registration calls made on composer 1.
RegCalls == ops - CopiesIn(Api("use", Plugin, 0, ""), api)

RegisterNext ==
    \/ \E id \in {Len(comp[1].middlewares) + 1} :
          /\ id <= MaxMws
          /\ \/ use(1, User(id, "pass"))
             \/ derive(1, Derive(id, "", "j", 1), "local")
             \/ decorate(1, Decorate(id, "k", 1), "local")
             \/ \E fn \in {Gate(id, "j", 1), GuardWith(id, "j", 1, <<Inner(id)>>)} :
                   guard(1, fn)
             \/ \E predicate \in {"true", "false", "fn"} :
                   /\ Once("branch")
                   /\ branch(1, predicate, Branch(id, "j", 1, Inner(id), <<>>))
             \/ route(1, Route(id, "k", <<Inner(id)>>, <<>>))
             \/ fork(1, Fork(id, <<User(id + 10, "reject")>>))
             \/ tap(1, Tap(id, <<Inner(id)>>))
             \/ lazy(1, Lazy(id, "", Inner(id)))
             \/ group(1, <<Inner(id)>>)
             \/ \E condition \in BOOLEAN :
                   /\ Once("when")
                   /\ when(1, condition, Temp(id))
             \/ /\ comp[Plugin].middlewares # <<>>
                /\ ExtendCalls(1, Plugin) < 2
                /\ extend(1, Plugin)
    \/ /\ Once("onError")
       /\ onError(1, Handler(1, "undef"))
    \/ /\ Once("error")
       /\ error(1, "X", "Error")
    \/ /\ Once("macro")
       /\ macro(1, "m", "Other")
    \/ /\ Once("as")
       /\ as(1, "scoped")
    \/ /\ Once("trace")
       /\ trace(1, 1)

NextReg ==
    \/ /\ comp[Plugin].middlewares = <<>>
       /\ use(Plugin, User(20, "pass"))
    \/ /\ RegCalls < MaxReg
       /\ RegisterNext
    \/ /\ hist[1] = <<>>
       /\ Composer_compose(1)
    \/ /\ hist[1] = <<>>
       /\ run(1, EmptyCtx, NoNext, TRUE)
    \/ Step
    \/ \E t \in 1..Len(tasks) : StepTask(t)

SpecReg == InitReg /\ [][NextReg]_vars

\* C11: a registration call that changes a registry leaves its compiled cache
\* absent.
C11_MutationInvalidates ==
    [][ops' = ops + 1 =>
          \A c \in Composers :
              comp'[c] # comp[c] => comp'[c].compiled = NoCompiled]_vars

(***************************************************************************)
(* Double continuation.                                                    *)
(***************************************************************************)
Times(e, id) == Cardinality({i \in 1..Len(log) : log[i].e = e /\ log[i].id = id})
StartedWith(behs) ==
    \E i \in 1..Len(call.fns) : call.fns[i].beh \in behs /\ Started(call.fns[i].id)

\* C12: in a call of compose(steps), no step and not the terminal starts a
\* second time; the second call of a continuation is never a synchronous
\* throw; and when a step that calls its continuation twice has started and
\* no step failed by itself, the call ends rejected with "next() called
\* multiple times".
C12_DoubleContinuation ==
    call.c = 0 =>
        /\ \A i \in 1..Len(call.fns) : Times("in", i) <= 1
        /\ Times("term", 0) <= 1
        /\ ~(ret.st = "throw" /\ ret.err = MultiErr)
        /\ (Done /\ StartedWith({"twice"}) /\ ~StartedWith({"throw", "reject"}))
              => result = Reject(MultiErr)

C12_Witness ==
    /\ Done /\ call.c = 0
    /\ Len(call.fns) = 2
    /\ call.fns[1].beh = "twice" /\ call.fns[2].beh = "pass"
    /\ call.next = Terminal
    /\ Times("in", 2) = 1 /\ Times("out", 2) = 1 /\ Times("term", 0) = 1
    /\ result = Reject(MultiErr)

\* C13: when a step of a Composer's chain has called its continuation twice
\* and no step failed by itself, run() ends rejected with "next() called
\* multiple times", no error handler was called and nothing went to
\* console.error.
C13_DoubleRejectsRun ==
    (Done /\ AnyRun /\ StartedWith({"twice"}) /\ ~StartedWith({"throw", "reject"}))
        => /\ result = Reject(MultiErr)
           /\ HandlerLog = <<>>
           /\ ~Logged("console.error")

(***************************************************************************)
(* The terminal continuation.                                              *)
(***************************************************************************)
EveryStepContinues == \A i \in 1..Len(call.fns) : call.fns[i].beh \in {"pass", "twice"}
LastOf(e) == CHOOSE i \in 1..Len(log) : log[i].e = e /\ \A j \in (i + 1)..Len(log) : log[j].e # e

\* C14: for every step list, the empty one included, a terminal handed to
\* the composed chain (directly or through run()) has been called exactly
\* once, after the last step started, when every step called its
\* continuation, and not at all otherwise; without terminal a chain whose
\* steps all continue once resolves.
C14_Terminal ==
    Done =>
        /\ call.next = Terminal =>
              /\ Times("term", 0) = IF EveryStepContinues THEN 1 ELSE 0
              /\ (TerminalStarted /\ call.fns # <<>>) => LastOf("in") < LastOf("term")
        /\ call.next # Terminal => ~TerminalStarted
        /\ (call.next = NoNext /\ EveryStepAwaitsNextOnce) => result.st = "ok"

C14_Witness ==
    /\ Done /\ call.c = 0 /\ call.fns = <<>> /\ call.next = Terminal
    /\ Times("term", 0) = 1
    /\ result.st = "ok"

C14_WitnessLast ==
    /\ Done /\ call.next = Terminal /\ EveryStepContinues
    /\ Len(call.fns) = 2
    /\ Times("term", 0) = 1 /\ LastOf("in") < LastOf("term")

(***************************************************************************)
(* Error kinds: composer 1 and the plugin it extends register error        *)
(* classes under kind names; composer 1 has one failing step and one       *)
(* handler that returns undefined.                                         *)
(***************************************************************************)
KindNames == {"A", "B", "1"}

NextKind ==
    \/ \E kind \in KindNames, errorClass \in ErrorClasses :
          /\ ~HasKey(comp[1].errorsDefinitions, kind)
          /\ Len(comp[1].kinds) < MaxMws
          /\ error(1, kind, errorClass)
    \/ \E kind \in KindNames, errorClass \in ErrorClasses :
          /\ Len(comp[Plugin].errorsDefinitions) < MaxOwn
          /\ ~Merged(1, Plugin)
          /\ error(Plugin, kind, errorClass)
    \/ /\ ~Merged(1, Plugin)
       /\ comp[Plugin].errorsDefinitions # <<>>
       /\ extend(1, Plugin)
    \/ \E beh \in {"throw", "twice"} :
          /\ comp[1].middlewares = <<>>
          /\ use(1, User(1, beh))
    \/ /\ comp[1].onErrors = <<>>
       /\ onError(1, Handler(1, "undef"))
    \/ run(1, EmptyCtx, NoNext, TRUE)
    \/ Step

SpecKind == InitReg /\ [][NextKind]_vars

ClassOf(errorsDefinitions, kind) ==
    errorsDefinitions[CHOOSE i \in 1..Len(errorsDefinitions) :
                          errorsDefinitions[i].key = kind].val
\* The first kind, in the order of registration, whose class the failure is
\* an instance of.
FirstMatching(err, r) ==
    LET hits == {i \in 1..Len(r.kinds) :
                    InstanceOf(err, ClassOf(r.errorsDefinitions, r.kinds[i]))}
    IN IF hits = {} THEN NoKind
       ELSE r.kinds[CHOOSE i \in hits : \A j \in hits : i <= j]

\* C15: the kind an error handler is given is the kind registered (or merged
\* in) first among those whose class matches the failure, and none when no
\* class matches.
C15_FirstRegisteredKind ==
    Running(1) =>
        \A i \in 1..Len(log) :
            log[i].e = "handler" => log[i].x[2] = FirstMatching(log[i].x[1], comp[1])

\* The same for registries whose kind names are not integer-like.
C15_NamedKinds ==
    (\A i \in 1..Len(comp[1].kinds) : comp[1].kinds[i] \notin IndexKeys)
        => C15_FirstRegisteredKind

(***************************************************************************)
(* Scope promotion: composer 1 and the plugin it extends register entries  *)
(* of every scope and call as() in any order.                              *)
(***************************************************************************)
Scopes == {"local", "scoped", "global"}
Rank(scope) == CASE scope = "local" -> 0 [] scope = "scoped" -> 1 [] OTHER -> 2

NextAs ==
    \/ \E c \in {1, Plugin}, scope \in Scopes :
          /\ Len(comp[c].middlewares) < MaxMws
          /\ c = Plugin => ~Merged(1, Plugin)
          /\ derive(c, Derive(Base(c) + Len(comp[c].middlewares) + 1, "ok", "j", 1), scope)
    \/ /\ Len(comp[1].middlewares) < MaxMws
       /\ \/ use(1, User(Len(comp[1].middlewares) + 1, "pass"))
          \/ group(1, <<Inner(Len(comp[1].middlewares) + 1)>>)
    \/ \E c \in {1, Plugin}, scope \in {"scoped", "global"} :
          /\ comp[c].middlewares # <<>>
          /\ c = Plugin => ~Merged(1, Plugin)
          /\ Api("as", c, 0, scope) \notin BagToSet(api)
          /\ as(c, scope)
    \/ /\ comp[Plugin].middlewares # <<>>
       /\ ExtendCalls(1, Plugin) < 2
       /\ extend(1, Plugin)
    \/ /\ hist[1] = <<>>
       /\ Composer_compose(1)

SpecAs == InitReg /\ [][NextAs]_vars

\* The registration call this step makes.
Called(a) == api' = api (+) SetToBag({a})

\* C16: a step keeps every entry of every registry in its place with its
\* function, and never lowers its scope: as('global') leaves every entry
\* global, as('scoped') turns the local entries scoped and leaves the others,
\* and any other step leaves the scopes as they are.
C16_ScopeMonotonic ==
    [][\A c \in Composers :
          /\ Len(comp'[c].middlewares) >= Len(comp[c].middlewares)
          /\ \A i \in 1..Len(comp[c].middlewares) :
                LET old == comp[c].middlewares[i]
                    new == comp'[c].middlewares[i]
                IN /\ new.fn = old.fn
                   /\ Rank(new.scope) >= Rank(old.scope)
                   /\ new.scope =
                         IF Called(Api("as", c, 0, "global")) THEN "global"
                         ELSE IF Called(Api("as", c, 0, "scoped")) /\ old.scope = "local"
                              THEN "scoped"
                              ELSE old.scope]_vars

\* as('scoped') has been called on a registry that held a global entry and a
\* local one, and later calls have left both where as() put them.
C16_Witness ==
    /\ Api("as", 1, 0, "scoped") \in BagToSet(api)
    /\ Api("as", 1, 0, "global") \notin BagToSet(api)
    /\ Merged(1, Plugin)
    /\ Len(comp[1].middlewares) >= 3
    /\ comp[1].middlewares[1].scope = "global"
    /\ comp[1].middlewares[2].scope = "scoped"
    /\ comp[1].compiled # NoCompiled

(***************************************************************************)
(* Guards: composer 1 registers gates, guards with one handler, and plain  *)
(* steps, and is run on a context that has j = 1 or lacks it.  The entry   *)
(* at position n has id n and the handler of a guard at position n has id  *)
(* n + 10.  Every predicate is ctx.j === 1.                                *)
(***************************************************************************)
GuardContexts == {o \in [Keys -> {Absent, 1}] : o["k"] = Absent}

NextGuard ==
    \/ \E id \in {Len(comp[1].middlewares) + 1} :
          /\ id <= MaxMws
          /\ \/ \E fn \in {Gate(id, "j", 1), AsyncGate(id, "j", 1)} : guard(1, fn)
             \/ \E beh \in {"pass", "stop", "reject"} :
                   guard(1, GuardWith(id, "j", 1, <<User(id + 10, beh)>>))
             \/ \E fn \in {User(id, "pass"), UserSet(id, "j", 1)} : use(1, fn)
    \/ \E c0 \in GuardContexts, next \in {NoNext, Terminal}, viaRun \in BOOLEAN :
          run(1, c0, next, viaRun)
    \/ Step

SpecGuard == Init /\ [][NextGuard]_vars

\* The steps composer 1 registered after position g, handlers of guards included.
LaterIds(g) ==
    UNION {{q, q + 10} : q \in (g + 1)..Len(comp[1].middlewares)}
\* The positions in the log where the predicate of a guard of the given mode
\* was evaluated.
Evaluated(mode) == {i \in 1..Len(log) : log[i].e = "in" /\ log[i].x = mode}
Yields(i) == log[i].seen["j"] = 1

\* C17: a gate calls its continuation once when its predicate yields true
\* and never when it yields false; in the latter case no later step of the
\* composer and no terminal starts, and the run resolves.
C17_GateMode ==
    Running(1) =>
        \A i \in Evaluated("gate") :
            LET g == log[i].id
            IN /\ Times("next", g) <= 1
               /\ Yields(i) => (Done => Times("next", g) = 1)
               /\ ~Yields(i) =>
                     /\ Times("next", g) = 0
                     /\ \A id \in LaterIds(g) : ~Started(id)
                     /\ ~TerminalStarted
                     /\ Done => result.st = "ok"

\* An async gate whose predicate yielded false, with a step registered after
\* it and a terminal given to the run.
C17_Witness ==
    /\ Done /\ Running(1)
    /\ call.next = Terminal
    /\ Len(comp[1].middlewares) = 2
    /\ comp[1].middlewares[1].fn = AsyncGate(1, "j", 1)
    /\ \E i \in Evaluated("gate") : log[i].id = 1 /\ ~Yields(i)
    /\ result.st = "ok"

\* A sync gate whose predicate yielded true after an earlier step set j.
C17_WitnessOpen ==
    /\ Done /\ Running(1)
    /\ call.next = Terminal
    /\ Len(comp[1].middlewares) = 2
    /\ comp[1].middlewares[1].fn = UserSet(1, "j", 1)
    /\ call.ctx0["j"] = Absent
    /\ \E i \in Evaluated("gate") : log[i].id = 2 /\ Yields(i)
    /\ Times("next", 2) = 1
    /\ TerminalStarted

\* The position of the log where guard g called its continuation.
Continued(g) == {i \in 1..Len(log) : log[i].e = "next" /\ log[i].id = g}
HandlerOf(g) == comp[1].middlewares[g].fn.body[1]

NextFork ==
    \/ \E id \in {Len(comp[1].middlewares) + 1} :
          /\ id <= MaxMws
          /\ \/ \E beh \in {"pass", "stop", "throw", "reject"} :
                   fork(1, Fork(id, <<User(id + 10, beh)>>))
             \/ use(1, User(id, "pass"))
    \/ /\ comp[1].onErrors = <<>>
       /\ onError(1, Handler(1, "val"))
    \/ \E next \in {NoNext, Terminal} : run(1, EmptyCtx, next, TRUE)
    \/ Step
    \/ \E t \in 1..Len(tasks) : StepTask(t)

SpecFork == Init /\ [][NextFork]_vars

\* The outermost call has settled; detached chains may still be running.
Settled == stack = <<>> /\ runs > 0
Scheduled(id) == \E t \in 1..Len(tasks) : tasks[t].id = id

\* C19: in a run whose own steps all pass, no failure is ever handed to the
\* error boundary or to an error handler, and once the outermost call has
\* settled, with the forked chains in whatever state, it has resolved with
\* undefined, every fork has scheduled its chain, and every step and the
\* terminal have started.
C19_ForkDetached ==
    Running(1) =>
        /\ \A i \in 1..Len(log) : log[i].e \notin {"handler", "console.error"}
        /\ Settled =>
              /\ result = Ok(0)
              /\ \A n \in 1..Len(comp[1].middlewares) :
                    IF comp[1].middlewares[n].type = "fork"
                    THEN Scheduled(n) ELSE Started(n)
              /\ call.next = Terminal => TerminalStarted

\* The run has resolved and the terminal has run while the chain of the
\* first fork has failed and the chain of the second has not started; an
\* error handler is registered.
C19_Witness ==
    /\ Settled /\ Running(1)
    /\ result = Ok(0)
    /\ TerminalStarted
    /\ comp[1].onErrors # <<>>
    /\ Len(tasks) = 2
    /\ tasks[1].st = "done" /\ tasks[1].ret.st = "reject"
    /\ tasks[2].st = "pending"

(***************************************************************************)
(* EventQueue (part_007).  An event is the number of its place in the      *)
(* order of appending; the promise of its handler is named by the event.   *)
(* The handler is an async function that settles at some later time.       *)
(***************************************************************************)
MaxEvents == 3     \* events appended to the queue
MaxBatch == 2      \* events in one addBatch()
MaxWaiters == 1    \* onIdle() calls made from outside a handler
MaxStops == 1      \* stop() calls made from outside a handler
MaxInside == 1     \* events whose handler calls the queue before its first await

composerVars ==
    <<comp, refs, ops, runs, ctx, fixed, stack, invs, ret, log, result, hist, call, api,
      tasks>>

Range(seq) == {seq[i] : i \in 1..Len(seq)}

\* The events whose handler has been called and has not settled.
InFlight(q) == Range(q.started) \ {s[1] : s \in q.settled}
Idling(q) == q.queue = <<>> /\ q.pendingUpdates = {}
Resolution(q, w) ==
    [w |-> w, queued |-> Len(q.queue), inFlight |-> Cardinality(InFlight(q))]

\* this.queue.push(...events) (part_007:17, 22): one new event for each
\* element of parts, which says what the handler does with it.
push(q, parts, fromHandler) ==
    LET events == [i \in 1..Len(parts) |-> Len(q.added) + i]
    IN [q EXCEPT !.queue = @ \o events,
                 !.added = @ \o events,
                 !.sync = @ \o parts,
                 !.whileActive = IF q.active THEN @ \cup Range(events) ELSE @,
                 !.inside = IF fromHandler THEN @ \cup Range(events) ELSE @]

\* onIdle() (part_007:36-43)
onIdle(q) ==
    LET w == q.waiters + 1
    IN IF Idling(q)
       THEN [q EXCEPT !.waiters = w, !.resolved = Append(@, Resolution(q, w))]
       ELSE [q EXCEPT !.waiters = w, !.idleResolvers = Append(@, w)]

\* stop(timeout) up to its await (part_007:26-33): the timer is set and the
\* race with onIdle() begun.
stopCall(q) ==
    LET q1 == [q EXCEPT !.active = FALSE,
                        !.startedAtStop = IF q.active THEN Len(q.started) ELSE @]
        q2 == onIdle(q1)
    IN [q2 EXCEPT !.stops = Append(@, [w |-> q2.waiters, timer |-> "set",
                                       st |-> "pending", inFlight |-> 0])]

\* What the handler does with an event before its first await: nothing,
\* queue.add(a new event, with which it does nothing), queue.onIdle() or
\* queue.stop().
SyncParts == {"none", "add", "onIdle", "stop"}

\* A process() that starts a handler only when none is pending.
process_oneAtATime(q) ==
    IF q.queue # <<>> /\ q.active /\ q.pendingUpdates = {}
    THEN [q EXCEPT !.queue = Tail(@),
                   !.pendingUpdates = {Head(q.queue)},
                   !.started = Append(@, Head(q.queue))]
    ELSE q

\* A process() that does not look at active.
RECURSIVE process_always(_)
process_always(q) ==
    IF q.queue = <<>> THEN q
    ELSE process_always([q EXCEPT !.queue = Tail(@),
                                  !.started = Append(@, Head(q.queue)),
                                  !.pendingUpdates = @ \cup {Head(q.queue)}])

\* process() (part_007:57-68): while the queue is not empty and the instance
\* is active, shift an event, call the handler with it and put the promise
\* into pendingUpdates.  The handler runs its synchronous part inside the
\* call: an add() there pushes and runs process() again, nested.
RECURSIVE process(_)
process(q) ==
    IF q.queue = <<>> \/ ~q.active
    THEN q
    ELSE LET event == Head(q.queue)
             q1 == [q EXCEPT !.queue = Tail(@), !.started = Append(@, event)]
             q2 == CASE q.sync[event] = "add" /\ Len(q1.added) < MaxEvents ->
                          process(push(q1, <<"none">>, TRUE))
                      [] q.sync[event] = "onIdle" -> onIdle(q1)
                      [] q.sync[event] = "stop" -> stopCall(q1)
                      [] OTHER -> q1
         IN process([q2 EXCEPT !.pendingUpdates = @ \cup {event}])

\* A checkIdle() that resolves the first waiter only.
checkIdle_firstOnly(q) ==
    IF Idling(q)
    THEN [q EXCEPT !.idleResolvers = <<>>,
                   !.resolved = @ \o [i \in 1..(IF q.idleResolvers = <<>> THEN 0 ELSE 1) |->
                                         Resolution(q, q.idleResolvers[i])]]
    ELSE q

\* checkIdle() (part_007:70-77)
checkIdle(q) ==
    IF Idling(q)
    THEN [q EXCEPT !.idleResolvers = <<>>,
                   !.resolved = @ \o [i \in 1..Len(q.idleResolvers) |->
                                         Resolution(q, q.idleResolvers[i])]]
    ELSE q

\* An add() that only appends.
add_noDrain(part) ==
    /\ Len(eventQueue.added) < MaxEvents
    /\ eventQueue' = push(eventQueue, <<part>>, FALSE)
    /\ UNCHANGED composerVars

\* add(event) (part_007:16-19)
add(part) ==
    /\ Len(eventQueue.added) < MaxEvents
    /\ eventQueue' = process(push(eventQueue, <<part>>, FALSE))
    /\ UNCHANGED composerVars

\* addBatch(events) (part_007:21-24)
addBatch(parts) ==
    /\ Len(eventQueue.added) + Len(parts) <= MaxEvents
    /\ eventQueue' = process(push(eventQueue, parts, FALSE))
    /\ UNCHANGED composerVars

\* A settling without the .catch(): the .then() callback is skipped when the
\* handler rejected, and nothing handles the rejection.
HandlerSettles_noCatch(event, outcome) ==
    /\ event \in InFlight(eventQueue)
    /\ eventQueue' =
          IF outcome = "reject"
          THEN [eventQueue EXCEPT !.settled = @ \cup {<<event, outcome>>},
                                  !.unhandled = @ \cup {event}]
          ELSE checkIdle([eventQueue EXCEPT
                             !.pendingUpdates = @ \ {event},
                             !.settled = @ \cup {<<event, outcome>>}])
    /\ UNCHANGED composerVars

\* The handler of a pending event settles: .catch(() => {}).then(...) of
\* part_007:60-65 runs whether it resolved or rejected.
HandlerSettles(event, outcome) ==
    /\ event \in InFlight(eventQueue)
    /\ eventQueue' = checkIdle([eventQueue EXCEPT
                                   !.pendingUpdates = @ \ {event},
                                   !.settled = @ \cup {<<event, outcome>>}])
    /\ UNCHANGED composerVars

\* onIdle() called from outside a handler.
OnIdle ==
    /\ eventQueue.waiters < MaxWaiters
    /\ eventQueue' = onIdle(eventQueue)
    /\ UNCHANGED composerVars

\* stop(timeout) called from outside a handler.
stop ==
    /\ Len(eventQueue.stops) < MaxStops
    /\ eventQueue' = stopCall(eventQueue)
    /\ UNCHANGED composerVars

\* The timer of the stop() call s fires (part_007:32) while stop() waits.
TimerFires(s) ==
    /\ s <= Len(eventQueue.stops)
    /\ eventQueue.stops[s].timer = "set"
    /\ eventQueue.stops[s].st = "pending"
    /\ eventQueue' = [eventQueue EXCEPT !.stops[s].timer = "fired"]
    /\ UNCHANGED composerVars

IdleResolved(q, w) == \E i \in 1..Len(q.resolved) : q.resolved[i].w = w

\* A stop() that awaits onIdle() alone.
StopReturns_idleOnly(s) ==
    /\ s <= Len(eventQueue.stops)
    /\ eventQueue.stops[s].st = "pending"
    /\ IdleResolved(eventQueue, eventQueue.stops[s].w)
    /\ eventQueue' = [eventQueue EXCEPT
                         !.stops[s].st = "done",
                         !.stops[s].inFlight = Cardinality(InFlight(eventQueue))]
    /\ UNCHANGED composerVars

\* The await of the stop() call s is over (part_007:30-33): the promise it
\* returned resolves.
StopReturns(s) ==
    /\ s <= Len(eventQueue.stops)
    /\ eventQueue.stops[s].st = "pending"
    /\ \/ IdleResolved(eventQueue, eventQueue.stops[s].w)
       \/ eventQueue.stops[s].timer = "fired"
    /\ eventQueue' = [eventQueue EXCEPT
                         !.stops[s].st = "done",
                         !.stops[s].inFlight = Cardinality(InFlight(eventQueue))]
    /\ UNCHANGED composerVars

\* The number of events of parts whose handler calls the queue.
Calling(parts) == Cardinality({i \in 1..Len(parts) : parts[i] # "none"})

NextQueue ==
    \/ \E part \in SyncParts :
          /\ Calling(eventQueue.sync \o <<part>>) <= MaxInside
          /\ add(part)
    \/ \E n \in 0..MaxBatch : \E parts \in [1..n -> SyncParts] :
          /\ Calling(eventQueue.sync \o parts) <= MaxInside
          /\ addBatch(parts)
    \/ \E event \in 1..MaxEvents, outcome \in {"resolve", "reject"} :
          HandlerSettles(event, outcome)
    \/ OnIdle
    \/ stop
    \/ \E s \in 1..Len(eventQueue.stops) : TimerFires(s)
    \/ \E s \in 1..Len(eventQueue.stops) : StopReturns(s)

SpecQueue == Init /\ [][NextQueue]_vars

\* The stop() calls there can be: those made from outside and those made by
\* handlers.
StopIds == 1..(MaxStops + MaxInside)

\* The event loop runs the callback of a timer that is due and resumes an
\* async function whose awaited promise has settled.  Nothing makes a
\* handler settle.
SpecQueueFair ==
    /\ SpecQueue
    /\ \A s \in StopIds : WF_vars(TimerFires(s)) /\ WF_vars(StopReturns(s))

\* C20: the handlers were called in the order the events were appended; as
\* long as the queue is active every appended event has had its handler
\* called, however many handlers are pending; and the handlers that have
\* settled are among those called, in no fixed order.
C20_FifoStart ==
    /\ Len(eventQueue.started) <= Len(eventQueue.added)
    /\ eventQueue.started = SubSeq(eventQueue.added, 1, Len(eventQueue.started))
    /\ eventQueue.active => eventQueue.started = eventQueue.added
    /\ eventQueue.pendingUpdates =
          Range(eventQueue.started) \ {s[1] : s \in eventQueue.settled}

\* add() and addBatch() have appended MaxEvents events; all were started
\* while none had settled, and the handler of the last one has settled
\* while the handler of the first one is pending.
C20_Witness ==
    /\ Len(eventQueue.added) = MaxEvents
    /\ eventQueue.started = eventQueue.added
    /\ {s[1] : s \in eventQueue.settled} = {MaxEvents}
    /\ eventQueue.pendingUpdates = 1..(MaxEvents - 1)

\* The number of times the handler was called with event e.
Starts(e) ==
    Cardinality({i \in 1..Len(eventQueue.started) : eventQueue.started[i] = e})

\* The events whose handler called stop() before its first await.
StoppedInside ==
    {h \in Range(eventQueue.started) : eventQueue.sync[h] = "stop"}

C22_ResolvedWhenIdle ==
    /\ \A i \in 1..Len(eventQueue.resolved) :
          /\ eventQueue.resolved[i].queued = 0
          /\ eventQueue.resolved[i].inFlight = 0
    /\ \A i, j \in 1..Len(eventQueue.resolved) :
          eventQueue.resolved[i].w = eventQueue.resolved[j].w => i = j
    /\ Idling(eventQueue) => eventQueue.idleResolvers = <<>>

\* seq is the beginning of longer.
Prefix(seq, longer) ==
    Len(seq) <= Len(longer) /\ seq = SubSeq(longer, 1, Len(seq))

\* C23: once stop() has been called the queue is inactive and stays so, the
\* handlers called are those called up to the stop() call, and the backlog
\* loses no event: what was in it stays and what is appended is put behind.
C23_Terminal ==
    [][/\ eventQueue'.stops # <<>> => ~eventQueue'.active
       /\ ~eventQueue'.active =>
             Len(eventQueue'.started) = eventQueue'.startedAtStop
       /\ ~eventQueue.active =>
             /\ ~eventQueue'.active
             /\ eventQueue'.started = eventQueue.started
             /\ Prefix(eventQueue.queue, eventQueue'.queue)]_vars

\* The queue was stopped by a handler during a drain: an event appended
\* before the stop() call and one appended after it are in the backlog, and
\* the handlers called before have all settled.
C23_Witness ==
    /\ ~eventQueue.active
    /\ Len(eventQueue.queue) = 2
    /\ eventQueue.queue[1] \in eventQueue.whileActive
    /\ eventQueue.queue[2] \notin eventQueue.whileActive
    /\ eventQueue.startedAtStop = 1
    /\ eventQueue.pendingUpdates = {}

\* C24: a stop() call that has returned did so after the queue was idle or
\* after its timer fired, and every stop() call that waits returns, whether
\* or not the handlers in flight ever settle.
C24_StopCompletes ==
    /\ [](\A s \in 1..Len(eventQueue.stops) :
             eventQueue.stops[s].st = "done" =>
                \/ eventQueue.stops[s].timer = "fired"
                \/ IdleResolved(eventQueue, eventQueue.stops[s].w))
    /\ \A s \in StopIds :
          (s <= Len(eventQueue.stops) /\ eventQueue.stops[s].st = "pending")
             ~> (s <= Len(eventQueue.stops) /\ eventQueue.stops[s].st = "done")

\* stop() returned on its timer while a handler was in flight, the queue
\* never having been idle for it, and that handler has settled afterwards.
C24_Witness ==
    /\ Len(eventQueue.stops) = 1
    /\ eventQueue.stops[1].st = "done"
    /\ eventQueue.stops[1].timer = "fired"
    /\ eventQueue.stops[1].inFlight = 1
    /\ eventQueue.settled # {}
    /\ eventQueue.pendingUpdates = {}

\* The events whose handler rejected.
Rejected == {s[1] : s \in {t \in eventQueue.settled : t[2] = "reject"}}

MaxOptions == 2    \* properties of one options object

\* Hooks (types.ts MacroHooks): preHandler is the sequence of the hook's
\* middleware (one, or an array), derive is empty or holds the derive hook.
\* A parameterized definition stands for the hooks it returns.
Hooks(pre, hook) == [preHandler |-> pre, derive |-> hook]
MacroNames == {"a", "b", "1", "2"}
DeriveResults == {"value", "null", "undefined"}
MacroDefs(name) ==
    CASE name = "a" ->
           {Hooks(<<User(11, "pass")>>, <<DeriveFn(12, beh, "j", 1)>>) :
               beh \in DeriveResults}
      [] name = "b" -> {Hooks(<<User(21, "pass"), User(22, "pass")>>, <<>>)}
      [] name = "1" -> {Hooks(<<>>, <<DeriveFn(32, "value", "k", 2)>>)}
      [] OTHER -> {Hooks(<<User(41, "pass")>>, <<>>)}

\* The values of an options object: t is the JavaScript value of a macro
\* option ("true", "false", "null", "undefined", "0"), or "mw" / "array"
\* for a preHandler given as one middleware / an array of them (mws).
Value(t, mws) == [t |-> t, mws |-> mws]
MacroValues == {Value(t, <<>>) : t \in {"true", "false", "null", "undefined", "0"}}
PreHandlerValues ==
    {Value("undefined", <<>>), Value("mw", <<User(1, "pass")>>),
     Value("array", <<User(1, "pass"), User(2, "pass")>>)}
OptionKeys == MacroNames \cup {"preHandler"}
Property(key, val) == [key |-> key, val |-> val]
Properties ==
    {Property("preHandler", v) : v \in PreHandlerValues}
       \cup {Property(k, v) : k \in MacroNames, v \in MacroValues}
\* The object literals of at most MaxOptions properties, no key twice.
Literals ==
    {lit \in UNION {[1..n -> Properties] : n \in 0..MaxOptions} :
        \A i, j \in 1..Len(lit) : lit[i].key = lit[j].key => i = j}

ObjectGet(obj, key) == obj[CHOOSE i \in 1..Len(obj) : obj[i].key = key].val

\* macros.ts:34-67: the steps of the macros the options activate, entries
\* being the properties of options as Object.keys() lists them.
RECURSIVE macroSteps(_, _)
macroSteps(macros, entries) ==
    IF entries = <<>> THEN <<>>
    ELSE LET key == Head(entries).key
             value == Head(entries).val
             rest == macroSteps(macros, Tail(entries))
         IN IF key = "preHandler" THEN rest
            ELSE IF value.t \in {"false", "null", "undefined"} THEN rest
            ELSE IF ~HasKey(macros, key) THEN rest
            ELSE LET hooks == ObjectGet(macros, key)
                 IN hooks.preHandler
                       \o [i \in 1..Len(hooks.derive) |-> MacroDerive(hooks.derive[i])]
                       \o rest

\* A chain that takes the macros in the order the literal was written.
chainOf_asWritten(macros, literal, handler) ==
    LET pre == IF \E i \in 1..Len(literal) : literal[i].key = "preHandler"
               THEN ObjectGet(literal, "preHandler").mws ELSE <<>>
    IN pre \o macroSteps(macros, literal) \o <<handler>>

\* macros.ts:21-70: the chain built for an options object.
chainOf(macros, literal, handler) ==
    LET options == ObjectAssign(<<>>, literal)
        pre == IF HasKey(options, "preHandler")
               THEN ObjectGet(options, "preHandler").mws ELSE <<>>
    IN pre \o macroSteps(macros, options) \o <<handler>>

\* buildFromOptions(macros, options, handler) (macros.ts:14-76) and the call
\* of the middleware it returns with (m.ctx, next).  given = FALSE is
\* options left undefined.
buildFromOptions(m, macros, given, literal, handler, next) ==
    LET chain == chainOf(macros, literal, handler)
    IN IF ~given THEN Push(m, handler, next, FALSE)
       ELSE IF Len(chain) = 1 THEN Push(m, chain[1], next, FALSE)
       ELSE compose(m, chain, next)

MainHandler == User(9, "pass")

\* A handler registered on composer 1 with the options literal is called.
BuildCall(given, literal, next) ==
    /\ Idle
    /\ runs < MaxRuns
    /\ LET m == buildFromOptions(NewMachine(EmptyCtx), comp[1].macros, given, literal,
                                 MainHandler, next)
       IN /\ stack' = m.stack
          /\ invs' = m.invs
          /\ ret' = m.ret
          /\ ctx' = m.ctx
          /\ fixed' = m.fixed
          /\ log' = m.log
          /\ tasks' = m.tasks
          /\ result' = IF m.stack = <<>> THEN m.ret ELSE NoRet
    /\ call' = [c |-> 1,
                fns |-> IF given THEN chainOf(comp[1].macros, literal, MainHandler)
                        ELSE <<MainHandler>>,
                next |-> next, ctx0 |-> EmptyCtx, ops |-> ops,
                options |-> IF given THEN literal ELSE <<>>]
    /\ runs' = runs + 1
    /\ UNCHANGED <<comp, refs, ops, hist, api, eventQueue>>

NextMacro ==
    \/ \E name \in MacroNames : \E definition \in MacroDefs(name) :
          /\ runs = 0
          /\ ~HasKey(comp[1].macros, name)
          /\ macro(1, name, definition)
    \/ \E literal \in Literals : BuildCall(TRUE, literal, Terminal)
    \/ BuildCall(FALSE, <<>>, Terminal)
    \/ Step

SpecMacro == Init /\ [][NextMacro]_vars

\* The steps one property of the options contributes: those of the macro it
\* names, when it names one and its value is not false, null or undefined.
StepsOf(macros, property) ==
    IF \/ property.key = "preHandler"
       \/ property.val.t \in {"false", "null", "undefined"}
       \/ ~HasKey(macros, property.key)
    THEN <<>>
    ELSE LET hooks == ObjectGet(macros, property.key)
         IN hooks.preHandler
               \o [i \in 1..Len(hooks.derive) |-> MacroDerive(hooks.derive[i])]
RECURSIVE Concat(_)
Concat(seqs) == IF seqs = <<>> THEN <<>> ELSE Head(seqs) \o Concat(Tail(seqs))
\* The pipeline for the properties taken in the given order: the explicit
\* preHandler steps, each macro's steps, the handler.
Pipeline(macros, properties, handler) ==
    LET explicit == SelectSeq(properties, LAMBDA q : q.key = "preHandler")
    IN Concat([i \in 1..Len(explicit) |-> explicit[i].val.mws])
          \o Concat([i \in 1..Len(properties) |-> StepsOf(macros, properties[i])])
          \o <<handler>>
\* The properties with the integer-like keys first, in ascending order, and
\* the other keys after them in the order of writing.
KeysOrder(properties) ==
    SelectSeq(properties, LAMBDA q : q.key = "1")
       \o SelectSeq(properties, LAMBDA q : q.key = "2")
       \o SelectSeq(properties, LAMBDA q : q.key \notin IndexKeys)
\* The steps that started, in the order they started.
InIds ==
    LET ins == SelectSeq(log, LAMBDA e : e.e = "in")
    IN [i \in 1..Len(ins) |-> ins[i].id]
NoDeriveStops == \A i \in 1..Len(call.fns) : call.fns[i].beh \notin {"null", "undefined"}
MacroRun == call.c = 1 /\ runs > 0

\* C26 as stated: the pipeline takes the macros in the order the caller
\* wrote the option keys.
C26_DeclaredOrder ==
    MacroRun => call.fns = Pipeline(comp[1].macros, call.options, MainHandler)

\* C26: the pipeline is the explicit preHandler steps, then the steps of the
\* activated macros taken in the order Object.keys() lists the option keys
\* (integer-like keys ascending, then the others as written), then the
\* handler; and when no derive stops the chain the steps start in that
\* order, once each, and the terminal after them.
C26_KeysOrder ==
    MacroRun =>
        /\ call.fns = Pipeline(comp[1].macros, KeysOrder(call.options), MainHandler)
        /\ (Done /\ NoDeriveStops) =>
              /\ InIds = [i \in 1..Len(call.fns) |-> call.fns[i].id]
              /\ TerminalStarted

\* Options {b: true, a: 0} with both macros registered: the two preHandler
\* steps of b, the preHandler and the derive of a, and the handler ran in
\* that order.
C26_Witness ==
    /\ MacroRun /\ Done
    /\ call.options = <<Property("b", Value("true", <<>>)), Property("a", Value("0", <<>>))>>
    /\ InIds = <<21, 22, 11, 12, 9>>
    /\ TerminalStarted

\* C27: after the derive step of a macro started with a hook that returns
\* null or undefined, no step and no continuation starts; with a hook that
\* returns {key: val}, everything that starts afterwards sees ctx[key] = val,
\* and the continuation of the step is called.
C27_DeriveGuard ==
    MacroRun =>
        \A s \in 1..Len(call.fns) : \A i \in 1..Len(log) :
            (call.fns[s].k = "macroDerive" /\ log[i].e = "in" /\ log[i].id = call.fns[s].id)
               => IF call.fns[s].beh = "value"
                  THEN /\ \A j \in (i + 1)..Len(log) :
                             log[j].seen[call.fns[s].key] = call.fns[s].val
                       /\ Done => \E j \in (i + 1)..Len(log) :
                                     log[j].e = "next" /\ log[j].id = call.fns[s].id
                  ELSE /\ \A j \in (i + 1)..Len(log) : log[j].e = "out"
                       /\ Done => result.st = "ok"

\* Options {1: true, a: true}: the derive of macro 1 returned {k: 2}, which
\* the preHandler of a saw; the derive of a returned null and the handler
\* did not run.
C27_Witness ==
    /\ MacroRun /\ Done
    /\ InIds = <<32, 11, 12>>
    /\ \E i \in 1..Len(log) :
          log[i].e = "in" /\ log[i].id = 11 /\ log[i].seen["k"] = 2
    /\ \E i \in 1..Len(call.fns) : call.fns[i].id = 12 /\ call.fns[i].beh = "null"
    /\ ~TerminalStarted
    /\ result.st = "ok"

(***************************************************************************)
(* Tracing: composer 1 with caller-supplied steps, an error handler and a  *)
(* trace hook that returns a completion callback.  The hook's calls are    *)
(* the "enter" events of the log and the callback's calls the "exit"       *)
(* events, with the error given.                                           *)
(***************************************************************************)
NextTrace ==
    \/ \E beh \in {"pass", "stop", "throw", "reject", "twice"} :
          /\ Len(comp[1].middlewares) < MaxMws
          /\ use(1, User(Len(comp[1].middlewares) + 1, beh))
    \/ \E beh \in {"undef", "val"} :
          /\ comp[1].onErrors = <<>>
          /\ onError(1, Handler(1, beh))
    \/ /\ comp[1].tracer = 0
       /\ trace(1, 1)
    \/ run(1, EmptyCtx, NoNext, TRUE)
    \/ Step

SpecTrace == Init /\ [][NextTrace]_vars

Traces == Running(1) /\ runs > 0 /\ comp[1].tracer # 0
\* Entry k of composer 1 fails: it throws or rejects itself, continues twice,
\* or awaits a continuation that fails.
RECURSIVE Fails(_)
Fails(k) ==
    LET beh == comp[1].middlewares[k].fn.beh
    IN CASE beh \in {"throw", "reject", "twice"} -> TRUE
         [] beh = "pass" -> k < Len(comp[1].middlewares) /\ Fails(k + 1)
         [] OTHER -> FALSE

\* C28: in a run with a trace hook installed, each entry that starts was
\* announced to the hook just before, with its index, its type and the
\* context; no entry is announced twice and the announcements come in chain
\* order; the completion callback of an announcement is called at most once,
\* after the callbacks of the entries announced after it, exactly once when
\* the run is over, and with an error exactly when the entry failed; and a
\* failure of the first entry reaches the error handler.
C28_TraceHook ==
    Traces =>
        /\ \A p \in 1..Len(log) :
              log[p].e = "in" =>
                 /\ p > 1
                 /\ log[p - 1].e = "enter"
                 /\ log[p - 1].id = log[p].id - 1
                 /\ log[p - 1].x = comp[1].middlewares[log[p].id].type
                 /\ log[p - 1].seen = log[p].seen
        /\ \A k \in 1..Len(comp[1].middlewares) :
              /\ Times("in", k) <= Times("enter", k - 1)
              /\ Times("enter", k - 1) <= 1
              /\ Times("exit", k - 1) <= Times("enter", k - 1)
              /\ Done => /\ Times("in", k) = Times("enter", k - 1)
                         /\ Times("exit", k - 1) = Times("enter", k - 1)
        /\ \A p, q \in 1..Len(log) :
              (p < q /\ log[p].e = "enter" /\ log[q].e = "enter") => log[p].id < log[q].id
        /\ \A q \in 1..Len(log) :
              log[q].e = "exit" =>
                 /\ \E p \in 1..(q - 1) : log[p].e = "enter" /\ log[p].id = log[q].id
                 /\ (log[q].x # "") <=> Fails(log[q].id + 1)
                 /\ \A p \in 1..(q - 1) :
                       (log[p].e = "enter" /\ log[p].id > log[q].id) =>
                          \E r \in (p + 1)..(q - 1) :
                             log[r].e = "exit" /\ log[r].id = log[p].id
        /\ (Done /\ comp[1].middlewares # <<>> /\ comp[1].onErrors # <<>>) =>
              (Fails(1) <=>
                  \E h \in 1..Len(log) :
                     /\ log[h].e = "handler"
                     /\ \E q \in 1..(h - 1) : log[q].e = "exit" /\ log[q].id = 0)

\* Two entries, the first passing and the second throwing, run under the
\* hook: enter 0, enter 1, exit 1 and exit 0 both with the error, and then
\* the error handler.
C28_Witness ==
    /\ Traces /\ Done
    /\ [i \in 1..Len(log) |-> log[i].e] =
          <<"enter", "in", "enter", "in", "exit", "exit", "handler">>
    /\ log[5].id = 1 /\ log[5].x = "E"
    /\ log[6].id = 0 /\ log[6].x = "E"

(***************************************************************************)
(* Layers: the child derives key j and may promote itself; the parent      *)
(* extends it, derives key k, registers a step and may promote itself, in  *)
(* any order; the grandparent extends the parent and registers a step.     *)
(***************************************************************************)
ParentDerives(scopes) ==
    {comp[Parent].middlewares[n].fn.key : n \in {i \in 1..Len(comp[Parent].middlewares) :
        /\ comp[Parent].middlewares[i].fn.id = Base(Parent) + 1
        /\ comp[Parent].middlewares[i].scope \in scopes}}

\* The step a registry registers itself after its extend() call.
Own(c) == User(Base(c) + 9, "pass")
HasOwn(c) == \E i \in 1..Len(comp[c].middlewares) : comp[c].middlewares[i].fn = Own(c)

NextLayer ==
    \/ /\ comp[Child].middlewares = <<>>
       /\ derive(Child, Derive(Base(Child) + 1, "ok", "j", Derived), "local")
    \/ \E c \in {Child, Parent}, scope \in {"scoped", "global"} :
          /\ ~Merged(c + 1, c)
          /\ comp[c].middlewares # <<>>
          /\ \A s \in {"scoped", "global"} : Api("as", c, 0, s) \notin BagToSet(api)
          /\ as(c, scope)
    \/ \E c \in {Child, Parent} :
          /\ ~Merged(c + 1, c)
          /\ comp[c].middlewares # <<>>
          /\ c = Child => ~Merged(Grand, Parent)
          /\ extend(c + 1, c)
    \/ /\ ~Merged(Grand, Parent)
       /\ ParentDerives({"local", "scoped", "global"}) = {}
       /\ derive(Parent, Derive(Base(Parent) + 1, "ok", "k", Derived), "local")
    \/ \E c \in {Parent, Grand} :
          /\ Merged(c, c - 1)
          /\ c = Parent => ~Merged(Grand, Parent)
          /\ ~HasOwn(c)
          /\ use(c, Own(c))
    \/ \E c \in {Parent, Grand} : run(c, EmptyCtx, NoNext, TRUE)
    \/ Step

SpecLayer == Init /\ [][NextLayer]_vars

\* C30: in a run of the grandparent, which extended the parent after the
\* parent had extended the child, the grandparent's own steps see no key
\* that a scoped entry of the child derived, whether or not the parent
\* promoted itself, and they see the key the parent derived when the
\* parent's entry is scoped or global.
C30_ScopedStopsAtParent ==
    (AnyRun /\ Merged(Parent, Child) /\ Merged(Grand, Parent)) =>
        \A i \in Entered({Own(Grand).id}) :
            /\ \A x \in ChildDerives("scoped") : ~Sees(i, x)
            /\ \A x \in ParentDerives({"scoped", "global"}) : Sees(i, x)

(***************************************************************************)
(* Repeated extend(): the named plugins 1 ("A") and 2 ("B") register       *)
(* steps, an error kind, a macro and an error handler and promote          *)
(* themselves at any time, also after they were extended; 2 extends 1, and *)
(* the unnamed Target extends both, each up to twice.                      *)
(***************************************************************************)
NextExtend ==
    \/ \E c \in {1, 2} :
          /\ Len(comp[c].middlewares) < MaxMws
          /\ use(c, User(Base(c) + Len(comp[c].middlewares) + 1, "pass"))
    \/ /\ ~HasKey(comp[2].errorsDefinitions, "X")
       /\ error(2, "X", "Error")
    \/ /\ ~HasKey(comp[2].macros, "m")
       /\ macro(2, "m", Hooks(<<User(11, "pass")>>, <<>>))
    \/ /\ comp[2].onErrors = <<>>
       /\ onError(2, Handler(2, "undef"))
    \/ /\ Api("as", 2, 0, "scoped") \notin BagToSet(api)
       /\ comp[2].middlewares # <<>>
       /\ as(2, "scoped")
    \/ \E t \in {2, Target}, o \in {1, 2} :
          /\ o < t
          /\ ExtendCalls(t, o) < 2
          /\ extend(t, o)

SpecExtend == InitDedup /\ [][NextExtend]_vars

\* The target's dedup set holds the key of the named registry o.
Deduped(t, o) == comp[o].name # "" /\ DedupKey(comp[o]) \in comp[t].extended

\* C29: a step that is an extend(o) call on t, o being named and its dedup
\* key in t's dedup set, leaves the whole record of t as it was: entries,
\* error handlers, error kinds, macros, dedup set and compiled cache.
C29_DedupNoop ==
    [][\A t, o \in Composers :
          (CopiesIn(Api("extend", t, o, ""), api') = ExtendCalls(t, o) + 1
             /\ Deduped(t, o))
          => comp'[t] = comp[t]]_vars

\* The target extended plugin 2 twice; the plugin has two steps and an error
\* kind, and the target has the one step the plugin had at the first call
\* and no error kind.
C29_Witness ==
    /\ ExtendCalls(Target, 2) = 2
    /\ Deduped(Target, 2)
    /\ Len(comp[2].middlewares) = 2
    /\ comp[2].errorsDefinitions # <<>>
    /\ comp[Target].middlewares =
          <<Entry(Isolated(<<User(Base(2) + 1, "pass")>>), "local", "extend", "B")>>
    /\ comp[Target].errorsDefinitions = <<>>
    /\ comp[Target].macros = <<>>
    /\ comp[Target].onErrors = <<>>

(***************************************************************************)
(* A failure inside an isolated chain: composer 1 holds steps of its own,  *)
(* error handlers, and one snapshot wrapper (a group() or the local        *)
(* entries of composer 2) whose chain writes keys and then fails.          *)
(***************************************************************************)
FailingStep(id) == {User(id, "throw"), User(id, "reject")}
Writes(id) == {UserSet(id, "k", 2), UserDel(id, "j")}
FailingBodies ==
    {<<w, st>> : w \in Writes(NestedBase + 1), st \in FailingStep(NestedBase + 2)}

NextIsoFail ==
    \/ /\ Len(comp[1].middlewares) <= MaxOwn
       /\ use(1, User(Len(comp[1].middlewares) + 1, "pass"))
    \/ \E beh \in {"undef", "val"} :
          /\ Len(comp[1].onErrors) < MaxOwn
          /\ onError(1, Handler(Len(comp[1].onErrors) + 1, beh))
    \/ \E body \in FailingBodies :
          /\ ~HasIsolated(1)
          /\ comp[2].middlewares = <<>>
          /\ group(1, body)
    \/ \E st \in Writes(NestedBase + Len(comp[2].middlewares) + 1)
                  \cup FailingStep(NestedBase + Len(comp[2].middlewares) + 1) :
          /\ ~HasIsolated(1)
          /\ Len(comp[2].middlewares) <= MaxOwn
          /\ \A i \in 1..Len(comp[2].middlewares) :
                comp[2].middlewares[i].fn \notin FailingStep(NestedBase + i)
          /\ use(2, st)
    \/ /\ ~HasIsolated(1)
       /\ extend(1, 2)
    \/ \E c0 \in Contexts : run(1, c0, NoNext, TRUE)
    \/ Step

SpecIsoFail == Init /\ [][NextIsoFail]_vars

NestedFailed ==
    \E i \in NestedEvents : log[i].x \in {"throw", "reject"}
BoundaryEvents ==
    {i \in 1..Len(log) : log[i].e \in {"handler", "console.error"}}

\* C31: when the chain inside a snapshot wrapper fails, every error handler
\* (and the console.error fallback) sees each removable key as the caller
\* passed it, and so does the caller once the run has settled.
C31_RestoredOnFailure ==
    (Running(1) /\ NestedFailed) =>
        /\ \A i \in BoundaryEvents : \A x \in Keys \ fixed : log[i].seen[x] = call.ctx0[x]
        /\ Done => \A x \in Keys \ fixed : ctx[x] = call.ctx0[x]

(***************************************************************************)
(* The queue when every handler that was called settles.                   *)
(***************************************************************************)
SpecQueueSettling ==
    /\ SpecQueue
    /\ \A event \in 1..MaxEvents :
          WF_vars(\E outcome \in {"resolve", "reject"} : HandlerSettles(event, outcome))

\* The onIdle() promises there can be: those asked for from outside, by
\* handlers and by stop().
WaiterIds == 1..(MaxWaiters + MaxStops + MaxInside)
Waiting(w) == w \in Range(eventQueue.idleResolvers)
\* Events are left in the backlog of a stopped queue.
Stranded == ~eventQueue.active /\ eventQueue.queue # <<>>

EnteredEntry(n) == Entered({comp[Child].middlewares[n].fn.id})

\* C33: in a run of a registry the child was extended into, an entry the
\* child registered earlier is entered before every entry it registered
\* later, whatever their scopes.
C33_InternalOrder ==
    (AnyRun /\ Merged(Parent, Child)) =>
        \A x, y \in 1..Len(comp[Child].middlewares) :
            x < y => \A i \in EnteredEntry(x), k \in EnteredEntry(y) : i < k

(***************************************************************************)
(* Error handlers through extend(): each named plugin may register one     *)
(* error handler before it is extended, plugin 1 and the target a step     *)
(* that may fail, and the plugins are extended into each other and into    *)
(* the target in any order, diamonds included.                             *)
(***************************************************************************)
NextDiamond ==
    \/ \E c \in Named, beh \in {"undef", "val"} :
          /\ ~Complete(c)
          /\ beh = "val" => c = 1
          /\ \A i \in 1..Len(comp[c].onErrors) : comp[c].onErrors[i].id # c
          /\ onError(c, Handler(c, beh))
    \/ \E c \in {1, Target}, beh \in {"pass", "throw"} :
          /\ ~Complete(c)
          /\ ~HasOwnStep(c)
          /\ use(c, User(c, beh))
    \/ \E t \in Named \cup {Target}, o \in Named :
          /\ o < t
          /\ ~Complete(t)
          /\ ~Edge(t, o)
          /\ extend(t, o)
    \/ run(Target, EmptyCtx, NoNext, TRUE)
    \/ Step

SpecDiamond == InitDedup /\ [][NextDiamond]_vars

\* The number of times the error handler id was called.
HandlerCalls(id) ==
    Cardinality({i \in 1..Len(log) : log[i].e = "handler" /\ log[i].id = id})

\* C34: in one run of the target, which has at most one failure to handle,
\* the error handler of every named plugin is called at most once, through
\* however many intermediates the plugin reached the target.
C34_HandlerOnce ==
    Running(Target) => \A c \in Named : HandlerCalls(c) <= 1

(***************************************************************************)
(* Seeds through intermediates: the plugins 1 and 2 have one name and a    *)
(* seed each, register one step, may promote themselves, and are extended  *)
(* into the unnamed intermediates 3 and 5; the target extends both         *)
(* intermediates.                                                          *)
(***************************************************************************)
Via(c) == IF c = 1 THEN 3 ELSE 5

NextSeedVia ==
    \/ \E c \in Plugins :
          /\ comp[c].middlewares = <<>>
          /\ use(c, User(c, "pass"))
    \/ \E c \in Plugins, scope \in {"scoped", "global"} :
          /\ comp[c].middlewares # <<>>
          /\ ~Edge(Via(c), c)
          /\ Api("as", c, 0, "scoped") \notin BagToSet(api)
          /\ Api("as", c, 0, "global") \notin BagToSet(api)
          /\ as(c, scope)
    \/ \E c \in Plugins :
          /\ comp[c].middlewares # <<>>
          /\ ~Edge(Via(c), c)
          /\ extend(Via(c), c)
    \/ \E c \in Plugins :
          /\ Edge(Via(c), c)
          /\ ~Edge(Target, Via(c))
          /\ extend(Target, Via(c))
    \/ run(Target, EmptyCtx, NoNext, TRUE)
    \/ Step

SpecSeedVia == InitSeed /\ [][NextSeedVia]_vars

\* C35: when two plugins of one name and different seeds have reached the
\* target, each through an intermediate of its own, the step of each has
\* executed after a run of the target.
C35_SeedsDistinctVia ==
    (/\ TargetRan
     /\ \A c \in Plugins : Edge(Target, Via(c))
     /\ comp[1].name # ""
     /\ ~DeepEqual(comp[1].seed, comp[2].seed))
    => \A c \in Plugins : Count(c) >= 1

(***************************************************************************)
(* fork() and snapshot isolation on one context: composer 1 registers, in  *)
(* any order, steps of its own, at most one fork() whose detached chain    *)
(* sets "j", and one snapshot wrapper, which is a group() or the local     *)
(* entries of composer 2; the nested chain is a passing step, a step that  *)
(* sets "k", or a fork() whose detached chain sets "k".  The detached      *)
(* chains take their steps at any time after they were scheduled.          *)
(***************************************************************************)
ForkedBase == 2 * NestedBase
OuterFork(id) == Fork(id, <<UserSet(ForkedBase + id, "j", 2)>>)
NestedFork == Fork(NestedBase + 1, <<UserSet(ForkedBase + NestedBase + 1, "k", 2)>>)
NestedChains == {<<User(NestedBase + 1, "pass")>>, <<UserSet(NestedBase + 1, "k", 2)>>,
                 <<NestedFork>>}
HasType(c, type) ==
    \E i \in 1..Len(comp[c].middlewares) : comp[c].middlewares[i].type = type

NextForkIso ==
    \/ \E id \in {Len(comp[1].middlewares) + 1} :
          /\ id <= MaxMws + 1
          /\ \/ /\ ~HasType(1, "fork")
                /\ fork(1, OuterFork(id))
             \/ use(1, User(id, "pass"))
    \/ \E body \in NestedChains :
          /\ ~HasIsolated(1)
          /\ comp[2].middlewares = <<>>
          /\ group(1, body)
    \/ \E body \in NestedChains :
          /\ ~HasIsolated(1)
          /\ comp[2].middlewares = <<>>
          /\ IF body = <<NestedFork>> THEN fork(2, body[1]) ELSE use(2, body[1])
    \/ /\ ~HasIsolated(1)
       /\ comp[2].middlewares # <<>>
       /\ extend(1, 2)
    \/ \E c0 \in Contexts : run(1, c0, NoNext, TRUE)
    \/ Step
    \/ \E t \in 1..Len(tasks) : StepTask(t)

SpecForkIso == Init /\ [][NextForkIso]_vars

\* The steps composer 1 registered itself after the snapshot wrapper.
AfterIsolated ==
    {comp[1].middlewares[p].fn.id : p \in {n \in 1..Len(comp[1].middlewares) :
        /\ comp[1].middlewares[n].type = "use"
        /\ \E q \in 1..(n - 1) : comp[1].middlewares[q].fn.k = "isolated"}}

\* C36: when the outer registry has no fork of its own, each of its steps
\* registered after the snapshot wrapper sees every key as the caller passed
\* it, whatever the nested chain and the chains it forked wrote, and
\* whenever they wrote it.
C36_NoNestedKeyObserved ==
    (Running(1) /\ ~HasType(1, "fork")) =>
        \A i \in Entered(AfterIsolated) : log[i].seen = call.ctx0

\* The positions in the log where a step of a chain forked by the outer
\* registry set its key.
OuterWrites == {i \in 1..Len(log) : /\ log[i].e = "in"
                                     /\ log[i].id > ForkedBase
                                     /\ log[i].id < ForkedBase + NestedBase}

\* C37: once a chain forked by the outer registry has set "j", which the
\* nested chain never touches, everything that runs later sees the value it
\* set, and so does the caller when all is over.
C37_OuterForkWriteKept ==
    Running(1) =>
        \A p \in OuterWrites :
            /\ \A q \in (p + 1)..Len(log) : log[q].seen["j"] = 2
            /\ (Done /\ Idle) => ctx["j"] = 2

(***************************************************************************)
(* The order of nested and outer steps around a snapshot wrapper, in       *)
(* SpecIso.                                                                *)
(***************************************************************************)
\* The positions in the log where a nested step was entered or left.
NestedInOut == {i \in 1..Len(log) : log[i].e \in {"in", "out"} /\ log[i].id > NestedBase}

\* C38: a step the outer registry registered after a group() or after the
\* extend() of a local plugin is entered only after every nested step has
\* been entered and left; no nested step is left, or entered, after it.
C38_NestedSettlesFirst ==
    Running(1) =>
        \A i \in Entered(AfterIsolated) : \A n \in NestedInOut : n < i

\* Two nested steps have each continued and returned, then the step
\* registered after the wrapper ran, and the run is over.
C38_Witness ==
    /\ Done /\ Running(1)
    /\ Cardinality({n \in NestedInOut : log[n].e = "out"}) = MaxNested
    /\ Entered(AfterIsolated) # {}
    /\ \E i \in 1..Len(log) : log[i].e = "in" /\ log[i].id < NestedBase
                                /\ log[i].id \notin AfterIsolated

(***************************************************************************)
(* route() with nested registries: composer 2 is given as the case of key  *)
(* 1, composer 3 is the one route.on() returned in the builder form or the *)
(* fallback of the record form.  Both hold steps that may fail and may     *)
(* have error handlers of their own; composer 1 registers the route, steps *)
(* and error handlers.                                                     *)
(***************************************************************************)
RouteContexts == {o \in [Keys -> {Absent, 1, 2}] : o["j"] = Absent}
HasRoute == HasType(1, "route")

NextRoute ==
    \/ \E c \in {2, 3}, beh \in {"pass", "throw", "reject"} :
          /\ ~HasRoute
          /\ Len(comp[c].middlewares) < MaxOwn
          /\ beh = "reject" => c = 2
          /\ use(c, User(Base(c) + Len(comp[c].middlewares) + 1, beh))
    \/ \E c \in {1, 2, 3}, beh \in {"undef", "val"} :
          /\ c # 1 => ~HasRoute /\ beh = "val"
          /\ comp[c].onErrors = <<>>
          /\ onError(c, Handler(c, beh))
    \/ /\ Len(comp[1].middlewares) < MaxOwn
       /\ use(1, User(Len(comp[1].middlewares) + 1, "pass"))
    \/ \E id \in {Len(comp[1].middlewares) + 1},
          fallback \in {<<>>, <<resolveRouteHandler(CaseComposer(3))>>,
                        <<resolveRouteHandler(CaseArray(<<User(Base(3), "throw")>>))>>,
                        <<resolveRouteHandler(CaseMiddleware(User(Base(3), "pass")))>>} :
          /\ ~HasRoute
          /\ route(1, Route(id, "k", <<resolveRouteHandler(CaseComposer(2))>>, fallback))
    \/ \E id \in {Len(comp[1].middlewares) + 1} :
          /\ ~HasRoute
          /\ route(1, Route(id, "k", <<builderCase(2), builderCase(3)>>, <<>>))
    \/ \E c0 \in RouteContexts : run(1, c0, NoNext, TRUE)
    \/ Step

SpecRoute == Init /\ [][NextRoute]_vars

\* The positions in the log where a step of composer 2 or 3 failed.
CaseFailures ==
    {i \in 1..Len(log) : /\ log[i].e = "in"
                         /\ log[i].id > Base(2)
                         /\ log[i].x \in {"throw", "reject"}}

\* C39: no error handler registered on a registry used as a route() case
\* or fallback, or on one made by the route builder, is ever called; when
\* a step of such a registry has failed and the run is over, the failure
\* went to the handlers of the registering composer, or to console.error
\* when it has none, and the run resolved.
C39_RouteFailurePropagates ==
    Running(1) =>
        /\ \A i \in 1..Len(log) : log[i].e = "handler" => log[i].id = 1
        /\ \A n \in CaseFailures :
              Done => /\ \E b \in BoundaryEvents :
                            /\ b > n
                            /\ log[b].e = "handler" <=> comp[1].onErrors # <<>>
                     /\ result.st = "ok"

\* A step of the Composer given as the case of key 1 failed; that Composer
\* and the registering composer both have an error handler; only the
\* latter's was called.
C39_Witness ==
    /\ Done /\ Running(1)
    /\ comp[2].onErrors # <<>> /\ comp[1].onErrors # <<>>
    /\ \E n \in CaseFailures : log[n].id < Base(3)
    /\ \E b \in BoundaryEvents : log[b].e = "handler" /\ log[b].id = 1

(***************************************************************************)
(* The dedup set: the named plugins 1, 2 and 3 register a step and extend  *)
(* the plugins below them; the target extends them, up to twice each,      *)
(* calls when() with a callback that extends plugin 3 on the registry it   *)
(* is given, and may promote itself; the target runs.                      *)
(***************************************************************************)
\* The registry the when() callback has filled: fn = (c) => c.extend(plugin 3).
WhenTemp == Extended(NewComposer("", "undefined"), comp[3])

NextGrow ==
    \/ \E c \in Named :
          /\ ~Complete(c)
          /\ ~HasOwnStep(c)
          /\ use(c, User(c, "pass"))
    \/ \E t \in Named \cup {Target}, o \in Named :
          /\ o < t
          /\ ~Complete(t)
          /\ ExtendCalls(t, o) < (IF t = Target THEN 2 ELSE 1)
          /\ extend(t, o)
    \/ \E condition \in BOOLEAN :
          /\ Api("when", Target, 0, IF condition THEN "true" ELSE "false")
                \notin BagToSet(api)
          /\ when(Target, condition, WhenTemp)
    \/ /\ comp[Target].middlewares # <<>>
       /\ Api("as", Target, 0, "scoped") \notin BagToSet(api)
       /\ as(Target, "scoped")
    \/ run(Target, EmptyCtx, NoNext, TRUE)
    \/ Step

SpecGrow == InitDedup /\ [][NextGrow]_vars

\* The step is a call counted under a in api.
IsCall(a) == CopiesIn(a, api') = CopiesIn(a, api) + 1

\* C40: no step takes a key out of the dedup set of any registry; an
\* extend(o) on t that is not deduplicated leaves in t's set the key of o,
\* when o is named, and every key of o's set; a when(true, fn) on t leaves
\* in t's set every key of the set of the registry fn had filled.
C40_DedupSetGrows ==
    [][/\ \A t \in Composers : comp[t].extended \subseteq comp'[t].extended
       /\ \A t, o \in Composers :
             (IsCall(Api("extend", t, o, "")) /\ ~Deduped(t, o)) =>
                 /\ comp[o].name # "" => DedupKey(comp[o]) \in comp'[t].extended
                 /\ comp[o].extended \subseteq comp'[t].extended
       /\ \A t \in Composers :
             IsCall(Api("when", t, 0, "true")) =>
                 WhenTemp.extended \subseteq comp'[t].extended]_vars

\* The target holds the keys of all three plugins: of 2 by extend(), of 1
\* through 2, and of 3 through when(true) alone.
C40_Witness ==
    /\ comp[Target].extended = {DedupKey(comp[c]) : c \in Named}
    /\ ExtendCalls(Target, 2) = 1
    /\ ExtendCalls(Target, 1) = 0 /\ ExtendCalls(Target, 3) = 0
    /\ ExtendCalls(3, 1) = 0 /\ ExtendCalls(3, 2) = 0
    /\ Api("when", Target, 0, "true") \in BagToSet(api)

====
